---- MODULE Spec2Model ----
(***************************************************************************)
(* Verification model of CMPRO2: the asset session store                   *)
(* (storage-manager.js), the cleanup scheduler (cleanup-scheduler.js),     *)
(* the structural converter (elementor-converter.js) and the download      *)
(* route with its schema gate (routes/clone.js, elementor-schema.js).      *)
(*                                                                         *)
(* Atomicity: JavaScript runs each continuation between two awaits         *)
(* atomically; every awaited file-system call is one step.  A step of the  *)
(* model is the file-system call together with the synchronous code that   *)
(* runs when its promise settles.                                          *)
(***************************************************************************)
EXTENDS Integers, Sequences, FiniteSets, TLC

\* ------------------------------------------------------------------ bounds
\* Largest value of the clock (Date.now()) the model lets time reach.
MaxNow == 3
\* Largest number of nodes of an IR tree handed to the converter.
MaxNodes == 4

\* ----------------------------------------------------------- program constants
\* this.sessionTTL (24 hours), in clock units of the model.
sessionTTL == 1

\* ------------------------------------------------------------------ universe
Sessions == {"s1", "s2"}
\* directory order returned by fs.readdir
SessionOrder == <<"s1", "s2">>

\* Concurrent callers.  w1, w2: downloaders calling saveAsset; lk: a caller of
\* lockSession / unlockSession; del: a caller of deleteSession; c1, c2:
\* triggers of runCleanup (schedule, run-on-start or manual).
Procs == {"w1", "w2", "lk", "del", "c1", "c2"}
NoProc == "none"

VARIABLES
    linkElement,  \* a element handed to buildWidget
    linkWidget,   \* widget buildWidget returns for it
    candidate,    \* template handed to ElementorValidator.validate
    validation,   \* results of the validate calls made so far, in order
    sessionImages, \* metadata.assets.images of the session the images are downloaded into
    downloadedImages, \* descriptors downloadImage has returned
    assetMapping, \* ElementorConverter.assetMapping
    imageWidget,  \* settings.image of the image widget built
    now,          \* Date.now()
    dirExists,    \* dirExists[s]: the session directory baseDir/s is on disk
    metaFile,     \* metaFile[s]: content of baseDir/s/metadata.json
    lockHolder,   \* lockHolder[s]: holder of metadata.json.lock (proper-lockfile)
    pc,           \* pc[p]: position of caller p
    prog,         \* prog[p]: the calls p still has to make, in order
    ret,          \* ret[p]: the values returned to p so far
    loc,          \* loc[p]: local variables of the running call of p
    isRunning,    \* CleanupScheduler.isRunning
    stats,        \* CleanupScheduler.stats
    ir,           \* IR structure handed to the converter
    reqMode,      \* export mode of the /download request
    template,     \* template produced by convertVisualToElementor
    out,          \* value returned by exportTemplate
    response,     \* HTTP response of POST /download
    assetImages,  \* asset list handed to findMatchingAsset
    imageUrl,     \* bare image URL looked up
    query,        \* query string appended to it
    found,        \* the two lookup results
    task,         \* CleanupScheduler.task is not null: the cron task is scheduled
    shutdownPc,   \* position of the shutdown() call
    waited,       \* Date.now() - startWait of shutdown(), in polls of 500 ms
    web,          \* web[u]: what a GET of stylesheet URL u answers
    downloadedUrls, \* CSSDownloader.downloadedUrls
    cssCall,      \* cssCall[k]: the k-th downloadAndProcessCSS call
    fetchOk,      \* fetchOk[u]: the download of URL u succeeds
    imageUrls,    \* input list of the batch download
    concurrency,  \* its concurrency argument
    queue,        \* positions of imageUrls not yet handed to a download
    batch,        \* positions of the current batch
    inFlight,     \* positions whose download has started and not settled
    settled,      \* settled[i]: value the download of position i settled with
    attempts,     \* attempts[i]: number of downloads started for position i
    results,      \* descriptors collected so far
    batchPc       \* position of the batch download call

storeVars == <<now, dirExists, metaFile, lockHolder, pc, prog, ret, loc, isRunning, stats>>
convVars == <<ir, reqMode, template, out, response>>
assetVars == <<assetImages, imageUrl, query, found>>
schedVars == <<task, shutdownPc, waited>>
cssVars == <<web, downloadedUrls, cssCall>>
batchVars == <<fetchOk, imageUrls, concurrency, queue, batch, inFlight, settled, attempts,
               results, batchPc>>
mapVars == <<sessionImages, downloadedImages, assetMapping, imageWidget>>
schemaVars == <<candidate, validation>>
linkVars == <<linkElement, linkWidget>>
vars == <<linkElement, linkWidget,
          candidate, validation,
          sessionImages, downloadedImages, assetMapping, imageWidget,
          now, dirExists, metaFile, lockHolder, pc, prog, ret, loc, isRunning, stats,
          ir, reqMode, template, out, response,
          assetImages, imageUrl, query, found,
          task, shutdownPc, waited,
          web, downloadedUrls, cssCall,
          fetchOk, imageUrls, concurrency, queue, batch, inFlight, settled, attempts,
          results, batchPc>>
\* What the steps of the session store, and those of the converter, leave alone.
otherThanStore == <<convVars, assetVars, schedVars, cssVars, batchVars, mapVars, schemaVars, linkVars>>
otherThanConv == <<storeVars, assetVars, schedVars, cssVars, batchVars, mapVars, schemaVars, linkVars>>
otherThanAsset == <<storeVars, convVars, schedVars, cssVars, batchVars, mapVars, schemaVars, linkVars>>
otherThanSched == <<storeVars, convVars, assetVars, cssVars, batchVars, mapVars, schemaVars, linkVars>>
otherThanCss == <<storeVars, convVars, assetVars, schedVars, batchVars, mapVars, schemaVars, linkVars>>
otherThanBatch == <<storeVars, convVars, assetVars, schedVars, cssVars, mapVars, schemaVars, linkVars>>
otherThanMap == <<storeVars, convVars, assetVars, schedVars, cssVars, batchVars, schemaVars, linkVars>>
otherThanSchema == <<storeVars, convVars, assetVars, schedVars, cssVars, batchVars, mapVars, linkVars>>
otherThanLink == <<storeVars, convVars, assetVars, schedVars, cssVars, batchVars, mapVars, schemaVars>>

\* ------------------------------------------------------- metadata documents
\* A parsed metadata document (createSession, lines 57-68).
Doc(expiresAt, locked, assets) ==
    [kind |-> "doc", expiresAt |-> expiresAt, locked |-> locked, assets |-> assets]
\* What a caller gets when there is nothing to return.
Null == [kind |-> "null"]
\* The file does not exist (its directory was removed).
NoFile == [kind |-> "nofile"]
\* The file was opened for writing (truncated) and its content is not yet written:
\* JSON.parse of it throws.
Truncated == [kind |-> "truncated"]

\* The file holds text that is not a JSON document: JSON.parse of it throws.
Corrupt == [kind |-> "corrupt"]

\* getSession (lines 85-107): null when the file does not exist, cannot be
\* parsed, or the session has expired; else the parsed document.
getSession(s) ==
    IF ~dirExists[s] THEN Null
    ELSE IF metaFile[s].kind # "doc" THEN Null
    ELSE IF now > metaFile[s].expiresAt THEN Null
    ELSE metaFile[s]

\* Local variables of a call; reset when the call returns.
NoLoc == [meta |-> Null, err |-> "", all |-> <<>>, expired |-> <<>>,
          idx |-> 1, deleted |-> 0, failed |-> 0, startTime |-> 0, attempts |-> 0]

Call(op, sid) == [op |-> op, sid |-> sid]
CurOp(p) == Head(prog[p])

\* --------------------------------------------------------------- scenarios
\* The sets of calls that run concurrently.
NoCalls == [p \in Procs |-> <<>>]
ScenWriters == [NoCalls EXCEPT !["w1"] = <<Call("save", "s1")>>,
                               !["w2"] = <<Call("save", "s1")>>,
                               !["lk"] = <<Call("lock", "s1"), Call("unlock", "s1")>>]
ScenDelete  == [NoCalls EXCEPT !["lk"] = <<Call("lock", "s1"), Call("unlock", "s1")>>,
                               !["del"] = <<Call("delete", "s1")>>,
                               !["w1"] = <<Call("save", "s1")>>]
ScenCleanup == [NoCalls EXCEPT !["c1"] = <<Call("cleanup", "s1")>>,
                               !["c2"] = <<Call("cleanup", "s1")>>,
                               !["lk"] = <<Call("lock", "s1"), Call("unlock", "s1")>>]
ScenSweep   == [NoCalls EXCEPT !["c1"] = <<Call("cleanup", "s1")>>,
                               !["w1"] = <<Call("save", "s1")>>,
                               !["del"] = <<Call("delete", "s2")>>]
\* one caller alone: lockSession; deleteSession; unlockSession; deleteSession
ScenSequential == [NoCalls EXCEPT !["del"] = <<Call("lock", "s1"), Call("delete", "s1"),
                                              Call("unlock", "s1"), Call("delete", "s1")>>]
\* two writers alone
ScenTwoWriters == [NoCalls EXCEPT !["w1"] = <<Call("save", "s1")>>,
                                  !["w2"] = <<Call("save", "s1")>>]
\* two triggers of the cleanup run and a direct deleteSession
ScenShutdown == [NoCalls EXCEPT !["c1"] = <<Call("cleanup", "s1")>>,
                                !["c2"] = <<Call("cleanup", "s1")>>,
                                !["del"] = <<Call("delete", "s2")>>]
\* downloadAllAssets (lines 534-662) on s1 with two assets to save, one
\* after the other: the session is locked, each asset is downloaded and
\* saved (downloadImage swallows a failure), and the session is unlocked, on
\* the normal path and in the catch block alike.
ScenPopulate == [NoCalls EXCEPT !["lk"] = <<Call("lock", "s1"), Call("save", "s1"),
                                            Call("save", "s1"), Call("unlock", "s1")>>]
Scenarios == {ScenWriters, ScenDelete, ScenCleanup, ScenSweep, ScenSequential, ScenTwoWriters,
              ScenShutdown}

\* ----------------------------------------------------------------- returns
\* The running call of p returns value v (a boolean is recorded as "true" or
\* "false", a thrown error as its code or message).
Return(p, v) ==
    /\ pc' = [pc EXCEPT ![p] = "idle"]
    /\ prog' = [prog EXCEPT ![p] = Tail(prog[p])]
    /\ ret' = [ret EXCEPT ![p] = Append(ret[p], v)]
    /\ loc' = [loc EXCEPT ![p] = NoLoc]

\* The running call of p moves to position l with local variables v.
Goto(p, l, v) ==
    /\ pc' = [pc EXCEPT ![p] = l]
    /\ loc' = [loc EXCEPT ![p] = v]
    /\ UNCHANGED <<prog, ret>>

At(p, l, op) == pc[p] = l /\ prog[p] # <<>> /\ CurOp(p).op = op
Sid(p) == CurOp(p).sid

\* ------------------------------------------------------------------- clock
Tick ==
    /\ now < MaxNow
    /\ now' = now + 1
    /\ UNCHANGED <<dirExists, metaFile, lockHolder, pc, prog, ret, loc, isRunning, stats>>
    /\ UNCHANGED otherThanStore

\* ------------------------------------------------------------ saveMetadata
\* saveMetadata has ended (after the finally block) with or without an error
\* (err is "" or the error's code): trackAsset and saveAsset rethrow it,
\* lockSession and unlockSession log it and return.
saveMetadataEnd(p, err) ==
    IF CurOp(p).op = "save"
    THEN Return(p, IF err = "" THEN "ok" ELSE err)
    ELSE Return(p, "done")

\* Variant of saveMetadataLock with a lock that is not exclusive: it is
\* granted although another writer holds it.
saveMetadataLockNotExclusive(p) ==
    /\ pc[p] = "sm_lock"
    /\ IF ~dirExists[Sid(p)]
       THEN /\ saveMetadataEnd(p, "ENOENT")
            /\ UNCHANGED lockHolder
       ELSE /\ lockHolder' = [lockHolder EXCEPT ![Sid(p)] = p]
            /\ Goto(p, "sm_open", loc[p])
    /\ UNCHANGED <<now, dirExists, metaFile, isRunning, stats>>
    /\ UNCHANGED otherThanStore

\* lockfile.lock(metadataPath, ...) (lines 127-135): fails when the file is
\* gone, acquires when no one holds the lock.
saveMetadataLock(p) ==
    /\ pc[p] = "sm_lock"
    /\ IF ~dirExists[Sid(p)]
       THEN /\ saveMetadataEnd(p, "ENOENT")
            /\ UNCHANGED lockHolder
       ELSE /\ lockHolder[Sid(p)] = NoProc
            /\ lockHolder' = [lockHolder EXCEPT ![Sid(p)] = p]
            /\ Goto(p, "sm_open", loc[p])
    /\ UNCHANGED <<now, dirExists, metaFile, isRunning, stats>>
    /\ UNCHANGED otherThanStore

\* The retry budget of lockfile.lock, retries: 10 (line 130).
MaxRetries == 2

\* Variant of saveMetadataLockRetry that does not count its attempts.
saveMetadataLockRetryForever(p) ==
    /\ pc[p] = "sm_lock"
    /\ dirExists[Sid(p)]
    /\ lockHolder[Sid(p)] # NoProc
    /\ UNCHANGED <<pc, prog, ret, loc>>
    /\ UNCHANGED <<now, dirExists, metaFile, lockHolder, isRunning, stats>>
    /\ UNCHANGED otherThanStore

\* lockfile.lock (lines 127-135): an attempt finds the lock held by another
\* writer and retries are left; the next attempt is made after the backoff.
saveMetadataLockRetry(p) ==
    /\ pc[p] = "sm_lock"
    /\ dirExists[Sid(p)]
    /\ lockHolder[Sid(p)] # NoProc
    /\ loc[p].attempts < MaxRetries
    /\ Goto(p, "sm_lock", [loc[p] EXCEPT !.attempts = @ + 1])
    /\ UNCHANGED <<now, dirExists, metaFile, lockHolder, isRunning, stats>>
    /\ UNCHANGED otherThanStore

\* The lock is held by another writer at the last attempt the retry budget
\* allows (lines 129-134): lockfile.lock rejects.
saveMetadataLockTimeout(p) ==
    /\ pc[p] = "sm_lock"
    /\ dirExists[Sid(p)]
    /\ lockHolder[Sid(p)] # NoProc
    /\ loc[p].attempts >= MaxRetries
    /\ saveMetadataEnd(p, "ELOCKED")
    /\ UNCHANGED <<now, dirExists, metaFile, lockHolder, isRunning, stats>>
    /\ UNCHANGED otherThanStore

\* fs.writeFile (line 138), first half: the file is opened and truncated.
saveMetadataOpen(p) ==
    /\ pc[p] = "sm_open"
    /\ IF ~dirExists[Sid(p)]
       THEN /\ Goto(p, "sm_release", [loc[p] EXCEPT !.err = "ENOENT"])
            /\ UNCHANGED metaFile
       ELSE /\ metaFile' = [metaFile EXCEPT ![Sid(p)] = Truncated]
            /\ Goto(p, "sm_write", loc[p])
    /\ UNCHANGED <<now, dirExists, lockHolder, isRunning, stats>>
    /\ UNCHANGED otherThanStore

\* fs.writeFile (line 138) rejects with an I/O error before touching the file.
saveMetadataOpenFail(p) ==
    /\ pc[p] = "sm_open"
    /\ dirExists[Sid(p)]
    /\ Goto(p, "sm_release", [loc[p] EXCEPT !.err = "EIO"])
    /\ UNCHANGED <<now, dirExists, metaFile, lockHolder, isRunning, stats>>
    /\ UNCHANGED otherThanStore

\* fs.writeFile (line 138), second half: the document is written.
saveMetadataWrite(p) ==
    /\ pc[p] = "sm_write"
    /\ metaFile' = IF dirExists[Sid(p)]
                   THEN [metaFile EXCEPT ![Sid(p)] = loc[p].meta]
                   ELSE metaFile
    /\ Goto(p, "sm_release", loc[p])
    /\ UNCHANGED <<now, dirExists, lockHolder, isRunning, stats>>
    /\ UNCHANGED otherThanStore

\* Variant of saveMetadataRelease that releases after the write only, not in
\* a finally block: a failed write leaves the lock held.
saveMetadataReleaseOnSuccess(p) ==
    /\ pc[p] = "sm_release"
    /\ lockHolder' = IF lockHolder[Sid(p)] = p /\ loc[p].err = ""
                     THEN [lockHolder EXCEPT ![Sid(p)] = NoProc]
                     ELSE lockHolder
    /\ saveMetadataEnd(p, loc[p].err)
    /\ UNCHANGED <<now, dirExists, metaFile, isRunning, stats>>
    /\ UNCHANGED otherThanStore

\* finally { if (release) await release() } (lines 143-152).
saveMetadataRelease(p) ==
    /\ pc[p] = "sm_release"
    /\ lockHolder' = IF lockHolder[Sid(p)] = p
                     THEN [lockHolder EXCEPT ![Sid(p)] = NoProc]
                     ELSE lockHolder
    /\ saveMetadataEnd(p, loc[p].err)
    /\ UNCHANGED <<now, dirExists, metaFile, isRunning, stats>>
    /\ UNCHANGED otherThanStore

\* --------------------------------------------------- saveAsset / trackAsset
\* saveAsset, lines 206-209: the session must exist and not be expired.
saveAsset(p) ==
    /\ At(p, "idle", "save")
    /\ IF getSession(Sid(p)).kind = "null"
       THEN Return(p, "not found or expired")
       ELSE Goto(p, "sa_file", loc[p])
    /\ UNCHANGED <<now, dirExists, metaFile, lockHolder, isRunning, stats>>
    /\ UNCHANGED otherThanStore

\* saveAsset, line 212: the asset file is written into the session directory.
saveAssetWriteFile(p) ==
    /\ pc[p] = "sa_file"
    /\ IF ~dirExists[Sid(p)]
       THEN Return(p, "ENOENT")
       ELSE Goto(p, "ta_get", loc[p])
    /\ UNCHANGED <<now, dirExists, metaFile, lockHolder, isRunning, stats>>
    /\ UNCHANGED otherThanStore

\* trackAsset, lines 163-177: read the document, push the descriptor, and hand
\* the whole document to saveMetadata.
trackAsset(p) ==
    /\ pc[p] = "ta_get"
    /\ LET metadata == getSession(Sid(p)) IN
       IF metadata.kind = "null"
       THEN Return(p, "not found or expired")
       ELSE Goto(p, "sm_lock",
                 [loc[p] EXCEPT !.meta = [metadata EXCEPT !.assets = Append(metadata.assets, p)]])
    /\ UNCHANGED <<now, dirExists, metaFile, lockHolder, isRunning, stats>>
    /\ UNCHANGED otherThanStore

\* ------------------------------------------------ lockSession / unlockSession
\* lockSession, lines 361-374.
lockSession(p) ==
    /\ At(p, "idle", "lock")
    /\ LET metadata == getSession(Sid(p)) IN
       IF metadata.kind = "null"
       THEN Return(p, "done")
       ELSE Goto(p, "sm_lock", [loc[p] EXCEPT !.meta = [metadata EXCEPT !.locked = TRUE]])
    /\ UNCHANGED <<now, dirExists, metaFile, lockHolder, isRunning, stats>>
    /\ UNCHANGED otherThanStore

\* unlockSession, lines 380-393.
unlockSession(p) ==
    /\ At(p, "idle", "unlock")
    /\ LET metadata == getSession(Sid(p)) IN
       IF metadata.kind = "null"
       THEN Return(p, "done")
       ELSE Goto(p, "sm_lock", [loc[p] EXCEPT !.meta = [metadata EXCEPT !.locked = FALSE]])
    /\ UNCHANGED <<now, dirExists, metaFile, lockHolder, isRunning, stats>>
    /\ UNCHANGED otherThanStore

\* ------------------------------------------------------------ cleanup stats
\* updateStats (lines 215-227).
updateStats(st, success, sessionsDeleted) ==
    [totalRuns |-> st.totalRuns + 1,
     totalSessionsDeleted |-> st.totalSessionsDeleted + sessionsDeleted,
     totalErrors |-> st.totalErrors + (IF success THEN 0 ELSE 1)]

\* ------------------------------------------------------------ deleteSession
\* The session a deleteSession call is about: its argument, or inside
\* runCleanup the current element of expiredSessions (line 158).
DelSid(p) ==
    IF CurOp(p).op = "cleanup" THEN loc[p].expired[loc[p].idx] ELSE Sid(p)

\* Variant of deleteSessionEnd in which runCleanup leaves its loop at the
\* first session that is not deleted.
deleteSessionEndAbortsOnFailure(p, deleted) ==
    IF CurOp(p).op = "delete"
    THEN /\ Return(p, IF deleted THEN "true" ELSE "false")
         /\ UNCHANGED stats
    ELSE LET l == [loc[p] EXCEPT !.deleted = @ + (IF deleted THEN 1 ELSE 0),
                                 !.failed = @ + (IF deleted THEN 0 ELSE 1),
                                 !.idx = @ + 1] IN
         IF l.idx > Len(l.expired) \/ ~deleted
         THEN /\ stats' = updateStats(stats, l.failed = 0, l.deleted)
              /\ Goto(p, "rc_stats", l)
         ELSE /\ Goto(p, "rc_call", l)
              /\ UNCHANGED stats

\* deleteSession returns `deleted` to its caller: a direct caller gets the
\* value; runCleanup (lines 160-187) counts it and goes on with the next
\* session, or after the last one updates the statistics and awaits getStats.
deleteSessionEnd(p, deleted) ==
    IF CurOp(p).op = "delete"
    THEN /\ Return(p, IF deleted THEN "true" ELSE "false")
         /\ UNCHANGED stats
    ELSE LET l == [loc[p] EXCEPT !.deleted = @ + (IF deleted THEN 1 ELSE 0),
                                 !.failed = @ + (IF deleted THEN 0 ELSE 1),
                                 !.idx = @ + 1] IN
         IF l.idx > Len(l.expired)
         THEN /\ stats' = updateStats(stats, l.failed = 0, l.deleted)
              /\ Goto(p, "rc_stats", l)
         ELSE /\ Goto(p, "rc_call", l)
              /\ UNCHANGED stats

\* deleteSession, lines 266-271, called directly.
deleteSession(p) ==
    /\ At(p, "idle", "delete")
    /\ IF ~dirExists[Sid(p)]
       THEN Return(p, "true")
       ELSE Goto(p, "del_get", loc[p])
    /\ UNCHANGED <<now, dirExists, metaFile, lockHolder, isRunning, stats>>
    /\ UNCHANGED otherThanStore

\* deleteSession, lines 274-283: first lock check through getSession.
deleteSessionGet(p) ==
    /\ pc[p] = "del_get"
    /\ LET metadata == getSession(DelSid(p)) IN
       IF metadata.kind = "doc" /\ metadata.locked
       THEN deleteSessionEnd(p, FALSE)
       ELSE /\ Goto(p, IF dirExists[DelSid(p)] THEN "del_check" ELSE "del_rm", loc[p])
            /\ UNCHANGED stats
    /\ UNCHANGED <<now, dirExists, metaFile, lockHolder, isRunning>>
    /\ UNCHANGED otherThanStore

\* deleteSession, lines 282-295: when metadata.json exists it is read again; a
\* locked document, an unreadable or an unparsable file all make it return
\* false; when it does not exist the check is skipped.
deleteSessionCheck(p) ==
    /\ pc[p] = "del_check"
    /\ LET s == DelSid(p) IN
       IF ~dirExists[s] \/ metaFile[s].kind = "nofile"
       THEN /\ Goto(p, "del_rm", loc[p])
            /\ UNCHANGED stats
       ELSE IF metaFile[s].kind # "doc" \/ metaFile[s].locked
       THEN deleteSessionEnd(p, FALSE)
       ELSE /\ Goto(p, "del_rm", loc[p])
            /\ UNCHANGED stats
    /\ UNCHANGED <<now, dirExists, metaFile, lockHolder, isRunning>>
    /\ UNCHANGED otherThanStore

\* Variant of deleteSessionRm whose fs.rm removes nothing and reports no
\* error.
deleteSessionRmKeepsDirectory(p) ==
    /\ pc[p] = "del_rm"
    /\ deleteSessionEnd(p, TRUE)
    /\ UNCHANGED <<now, dirExists, metaFile, lockHolder, isRunning>>
    /\ UNCHANGED otherThanStore

\* deleteSession, lines 299-302: fs.rm(sessionPath, {recursive, force}) removes
\* the directory with the metadata file and the lock directory in it.
deleteSessionRm(p) ==
    /\ pc[p] = "del_rm"
    /\ LET s == DelSid(p) IN
       /\ dirExists' = [dirExists EXCEPT ![s] = FALSE]
       /\ metaFile' = [metaFile EXCEPT ![s] = NoFile]
       /\ lockHolder' = [lockHolder EXCEPT ![s] = NoProc]
    /\ deleteSessionEnd(p, TRUE)
    /\ UNCHANGED <<now, isRunning>>
    /\ UNCHANGED otherThanStore

\* --------------------------------------------------------------- runCleanup
\* runCleanup, lines 127-130: a run is in progress, return at once.
runCleanupSkip(p) ==
    /\ At(p, "idle", "cleanup")
    /\ isRunning
    /\ Return(p, "skipped")
    /\ UNCHANGED <<now, dirExists, metaFile, lockHolder, isRunning, stats>>
    /\ UNCHANGED otherThanStore

\* Variant of runCleanup that does not look at the flag before starting.
runCleanupUnguarded(p) ==
    /\ At(p, "idle", "cleanup")
    /\ isRunning' = TRUE
    /\ Goto(p, "rc_readdir", [loc[p] EXCEPT !.startTime = now])
    /\ UNCHANGED <<now, dirExists, metaFile, lockHolder, stats>>
    /\ UNCHANGED otherThanStore

\* runCleanup, lines 132-139: take the flag and start enumerating.
runCleanup(p) ==
    /\ At(p, "idle", "cleanup")
    /\ ~isRunning
    /\ isRunning' = TRUE
    /\ Goto(p, "rc_readdir", [loc[p] EXCEPT !.startTime = now])
    /\ UNCHANGED <<now, dirExists, metaFile, lockHolder, stats>>
    /\ UNCHANGED otherThanStore

\* The run ends through the finally block (lines 206-208).
runCleanupEnd(p) ==
    /\ isRunning' = FALSE
    /\ Return(p, "ran")

\* getAllSessions (lines 313-332): the session directories on disk.
getAllSessions(p) ==
    /\ pc[p] = "rc_readdir"
    /\ LET all == SelectSeq(SessionOrder, LAMBDA s: dirExists[s]) IN
       IF all = <<>>
       THEN /\ stats' = updateStats(stats, TRUE, 0)
            /\ runCleanupEnd(p)
       ELSE /\ Goto(p, "rc_get", [loc[p] EXCEPT !.all = all, !.idx = 1])
            /\ UNCHANGED <<stats, isRunning>>
    /\ UNCHANGED <<now, dirExists, metaFile, lockHolder>>
    /\ UNCHANGED otherThanStore

\* getExpiredSessions (lines 343-348), one iteration: a session is expired when
\* getSession returns null or its expiry time has passed.  After the last one,
\* runCleanup (lines 141-158) ends if none is expired, else starts deleting.
getExpiredSessions(p) ==
    /\ pc[p] = "rc_get"
    /\ LET s == loc[p].all[loc[p].idx]
           metadata == getSession(s)
           isExpired == metadata.kind = "null" \/ now > metadata.expiresAt
           expired == IF isExpired THEN Append(loc[p].expired, s) ELSE loc[p].expired
       IN
       IF loc[p].idx < Len(loc[p].all)
       THEN /\ Goto(p, "rc_get", [loc[p] EXCEPT !.expired = expired, !.idx = @ + 1])
            /\ UNCHANGED <<stats, isRunning>>
       ELSE IF expired = <<>>
       THEN /\ stats' = updateStats(stats, TRUE, 0)
            /\ runCleanupEnd(p)
       ELSE /\ Goto(p, "rc_call", [loc[p] EXCEPT !.expired = expired, !.idx = 1, !.all = <<>>])
            /\ UNCHANGED <<stats, isRunning>>
    /\ UNCHANGED <<now, dirExists, metaFile, lockHolder>>
    /\ UNCHANGED otherThanStore

\* runCleanup, line 160: deleteSession is called for the next expired session
\* (deleteSession, lines 266-271).
runCleanupDelete(p) ==
    /\ pc[p] = "rc_call"
    /\ IF ~dirExists[DelSid(p)]
       THEN deleteSessionEnd(p, TRUE)
       ELSE /\ Goto(p, "del_get", loc[p])
            /\ UNCHANGED stats
    /\ UNCHANGED <<now, dirExists, metaFile, lockHolder, isRunning>>
    /\ UNCHANGED otherThanStore

\* runCleanup, lines 190-208: getStats only reads; then the finally block.
runCleanupStats(p) ==
    /\ pc[p] = "rc_stats"
    /\ runCleanupEnd(p)
    /\ UNCHANGED <<now, dirExists, metaFile, lockHolder, stats>>
    /\ UNCHANGED otherThanStore

\* ----------------------------------------------------------------- shutdown
\* The wait bound of shutdown(), maxWait = 30000 ms (line 264), counted in
\* polls of 500 ms (line 268).
MaxPolls == 3

\* stop (lines 94-120): the cron task is stopped and forgotten; nothing to do
\* when there is none.
stop == task' = FALSE

\* Variant of shutdown that stops the scheduler without looking at isRunning.
shutdownWithoutWaiting ==
    /\ shutdownPc = "idle"
    /\ stop
    /\ shutdownPc' = "done"
    /\ UNCHANGED waited
    /\ UNCHANGED otherThanSched

\* shutdown (lines 256-278), up to its first await: with no run in progress
\* the scheduler is stopped at once; else the wait starts (the loop condition
\* of line 267 holds and the first timer is set).
shutdown ==
    /\ shutdownPc = "idle"
    /\ IF isRunning
       THEN /\ shutdownPc' = "wait"
            /\ waited' = 0
            /\ UNCHANGED task
       ELSE /\ stop
            /\ shutdownPc' = "done"
            /\ UNCHANGED waited
    /\ UNCHANGED otherThanSched

\* shutdown, lines 267-277: a timer of the wait loop fires, at least one poll
\* interval after it was set; the loop condition is evaluated again and either
\* another timer is set or the scheduler is stopped.
shutdownPoll ==
    /\ shutdownPc = "wait"
    /\ \E d \in 1..(MaxPolls - waited): waited' = waited + d
    /\ IF isRunning /\ waited' < MaxPolls
       THEN UNCHANGED <<task, shutdownPc>>
       ELSE /\ stop
            /\ shutdownPc' = "done"
    /\ UNCHANGED otherThanSched

\* ----------------------------------------------------- the session store spec
\* Values of the converter's variables while the session store runs: no IR
\* structure (a tree of no nodes), nothing produced.
NoTree == [n |-> 0, parent |-> <<>>, kind |-> <<>>]
NoValue == [kind |-> "none"]

\* No URL, and the result of a lookup that finds no asset (null).
NoUrl == [host |-> "", path |-> <<>>, query |-> ""]
NoAsset == [originalUrl |-> NoUrl, absoluteUrl |-> NoUrl, localUrl |-> ""]

\* The converter has been handed nothing.
ConvIdle ==
    /\ ir = NoTree
    /\ reqMode = "none"
    /\ template = NoValue
    /\ out = NoValue
    /\ response = NoValue

\* The scheduler has been started and shutdown() has not been called.
SchedIdle ==
    /\ task = TRUE
    /\ shutdownPc = "idle"
    /\ waited = 0

\* The stylesheet URLs of the model, all absolute.
CssUrls == {"http://x/a.css", "http://x/b.css", "http://x/c.css"}
CssCalls == {1, 2}

\* A downloadAndProcessCSS call that has not started.
NoCssCall == [status |-> "idle", cssUrl |-> "", stack |-> <<>>, pending |-> "",
              fetched |-> <<>>, saved |-> FALSE, processedCSS |-> <<>>]

\* No stylesheet is downloaded.
CssIdle ==
    /\ web = [u \in CssUrls |-> [ok |-> FALSE, content |-> <<>>]]
    /\ downloadedUrls = {}
    /\ cssCall = [k \in CssCalls |-> NoCssCall]

\* The URLs handed to a batch download.
BatchUrls == {"http://x/1.png", "http://x/2.png"}

\* No batch download is made.
BatchIdle ==
    /\ fetchOk = [u \in BatchUrls |-> FALSE]
    /\ imageUrls = <<>>
    /\ concurrency = 1
    /\ queue = <<>>
    /\ batch = <<>>
    /\ inFlight = {}
    /\ settled = <<>>
    /\ attempts = <<>>
    /\ results = <<>>
    /\ batchPc = "idle"

\* No image is downloaded and no asset mapping is built.
MapIdle ==
    /\ sessionImages = <<>>
    /\ downloadedImages = <<>>
    /\ assetMapping = NoValue
    /\ imageWidget = NoValue

\* No template is handed to the validator.
SchemaIdle ==
    /\ candidate = NoValue
    /\ validation = <<>>

\* No a element is handed to buildWidget.
LinkIdle ==
    /\ linkElement = NoValue
    /\ linkWidget = NoValue

\* No asset lookup is made.
AssetIdle ==
    /\ assetImages = <<>>
    /\ imageUrl = NoUrl
    /\ query = ""
    /\ found = NoValue

\* Sessions exist on disk, created at most sessionTTL before the first
\* instant after which one of them can be expired; each may have been left
\* locked or unlocked; no call is running.
Init ==
    /\ now = sessionTTL + 1
    /\ dirExists = [s \in Sessions |-> TRUE]
    /\ \E createdAt \in [Sessions -> 0..sessionTTL], locked \in [Sessions -> BOOLEAN]:
          metaFile = [s \in Sessions |-> Doc(createdAt[s] + sessionTTL, locked[s], <<>>)]
    /\ lockHolder = [s \in Sessions |-> NoProc]
    /\ pc = [p \in Procs |-> "idle"]
    /\ prog \in Scenarios
    /\ ret = [p \in Procs |-> <<>>]
    /\ loc = [p \in Procs |-> NoLoc]
    /\ isRunning = FALSE
    /\ stats = [totalRuns |-> 0, totalSessionsDeleted |-> 0, totalErrors |-> 0]
    /\ ConvIdle
    /\ AssetIdle
    /\ SchedIdle
    /\ LinkIdle
    /\ SchemaIdle
    /\ MapIdle
    /\ CssIdle
    /\ BatchIdle

\* As Init, and the metadata of at least one session is corrupt.
InitCorrupt ==
    /\ now = sessionTTL + 1
    /\ dirExists = [s \in Sessions |-> TRUE]
    /\ \E createdAt \in [Sessions -> 0..sessionTTL], locked \in [Sessions -> BOOLEAN],
          corrupt \in (SUBSET Sessions) \ {{}}:
          metaFile = [s \in Sessions |->
                        IF s \in corrupt THEN Corrupt
                        ELSE Doc(createdAt[s] + sessionTTL, locked[s], <<>>)]
    /\ lockHolder = [s \in Sessions |-> NoProc]
    /\ pc = [p \in Procs |-> "idle"]
    /\ prog \in Scenarios
    /\ ret = [p \in Procs |-> <<>>]
    /\ loc = [p \in Procs |-> NoLoc]
    /\ isRunning = FALSE
    /\ stats = [totalRuns |-> 0, totalSessionsDeleted |-> 0, totalErrors |-> 0]
    /\ ConvIdle
    /\ AssetIdle
    /\ SchedIdle
    /\ LinkIdle
    /\ SchemaIdle
    /\ MapIdle
    /\ CssIdle
    /\ BatchIdle

\* The steps of the callers that write metadata.
writerStep(p) ==
    \/ saveAsset(p)
    \/ saveAssetWriteFile(p)
    \/ trackAsset(p)
    \/ lockSession(p)
    \/ unlockSession(p)
    \/ saveMetadataLock(p)
    \/ saveMetadataLockRetry(p)
    \/ saveMetadataLockTimeout(p)
    \/ saveMetadataOpen(p)
    \/ saveMetadataOpenFail(p)
    \/ saveMetadataWrite(p)
    \/ saveMetadataRelease(p)

\* The steps of deleteSession and of a cleanup run.
cleanerStep(p) ==
    \/ deleteSession(p)
    \/ deleteSessionGet(p)
    \/ deleteSessionCheck(p)
    \/ deleteSessionRm(p)
    \/ runCleanupSkip(p)
    \/ runCleanup(p)
    \/ getAllSessions(p)
    \/ getExpiredSessions(p)
    \/ runCleanupDelete(p)
    \/ runCleanupStats(p)

Next ==
    \/ Tick
    \/ \E p \in Procs:
        \/ writerStep(p)
        \/ cleanerStep(p)

Spec == Init /\ [][Next]_vars

\* One attempt of lockfile.lock by p.
lockAttempt(p) ==
    saveMetadataLock(p) \/ saveMetadataLockRetry(p) \/ saveMetadataLockTimeout(p)

\* As Init, with the callers that write the metadata of s1 only; s2, which
\* none of them touches, is fresh and unlocked.
InitLock ==
    /\ Init
    /\ prog = ScenWriters
    /\ metaFile["s2"] = Doc(sessionTTL + sessionTTL, FALSE, <<>>)

NextLock ==
    \/ Tick
    \/ \E p \in Procs: writerStep(p)

\* The writers of metadata, where every attempt and backoff timer of
\* lockfile.lock comes to run; nothing is assumed of the writer that holds the
\* lock.
SpecLockFair == InitLock /\ [][NextLock]_vars /\ \A p \in Procs: WF_vars(lockAttempt(p))

\* The session store and the cleanup scheduler with a shutdown() call.
NextShutdown ==
    \/ Tick
    \/ \E p \in Procs: cleanerStep(p)
    \/ shutdown
    \/ shutdownPoll

\* As Init, with two triggers of the cleanup run and a direct deleteSession.
InitShutdown ==
    /\ Init
    /\ prog = ScenShutdown

\* The timers of the wait loop of shutdown() fire (setTimeout, line 268).
SpecShutdown == InitShutdown /\ [][NextShutdown]_vars /\ WF_vars(shutdownPoll)

\* The session store and the cleanup scheduler over a disk where some metadata
\* is corrupt.
SpecCorrupt == InitCorrupt /\ [][Next]_vars

\* ================================================================== claims
Range(seq) == {seq[i] : i \in 1..Len(seq)}

\* p is between acquiring and releasing the file lock of s.
InSaveMetadata(p, s) ==
    /\ pc[p] \in {"sm_open", "sm_write", "sm_release"}
    /\ prog[p] # <<>>
    /\ Sid(p) = s

\* p is inside a cleanup run.
Cleaning(p) == prog[p] # <<>> /\ CurOp(p).op = "cleanup" /\ pc[p] # "idle"

\* Some caller's lockSession(s) has returned and its unlockSession(s) has not
\* been called yet, and the persisted document says locked = true.
LockedByCompletedLock(s) ==
    /\ metaFile[s].kind = "doc"
    /\ metaFile[s].locked
    /\ \E p \in Procs:
          /\ pc[p] = "idle"
          /\ prog[p] # <<>>
          /\ CurOp(p) = Call("unlock", s)
          /\ ret[p] = <<"done">>

\* C1: a session directory is never removed while its persisted metadata has
\* locked = true: no step removes the directory of a session after a
\* lockSession on it has completed and before the matching unlockSession.
C1_NeverRemovedWhileLocked ==
    [][\A s \in Sessions:
          (dirExists[s] /\ ~dirExists'[s]) => ~LockedByCompletedLock(s)]_vars

\* Only the two writers w1 and w2 have ever run.
OnlyWriters ==
    \A p \in Procs \ {"w1", "w2"}: prog[p] = <<>> /\ ret[p] = <<>>

\* C2: no lost updates: when two writers concurrently add an asset to the same
\* session and both complete successfully, the final metadata document lists
\* both descriptors.
C2_NoLostUpdates ==
    (OnlyWriters /\ ret["w1"] = <<"ok">> /\ ret["w2"] = <<"ok">>)
        => /\ metaFile["s1"].kind = "doc"
           /\ {"w1", "w2"} \subseteq Range(metaFile["s1"].assets)

\* Only caller del has ever run, and it started with lockSession.
Sequential ==
    /\ \A p \in Procs \ {"del"}: prog[p] = <<>> /\ ret[p] = <<>>
    /\ Len(ret["del"]) + Len(prog["del"]) = 4

\* C3: run sequentially on an existing session, deleteSession after lockSession
\* returns false and leaves the directory and its metadata intact, and
\* deleteSession after the following unlockSession returns true and the
\* directory no longer exists.
C3_LockThenDelete ==
    Sequential =>
        /\ Len(ret["del"]) >= 2 => ret["del"][2] = "false"
        /\ (Len(ret["del"]) = 2 /\ pc["del"] = "idle")
              => (dirExists["s1"] /\ metaFile["s1"].kind = "doc")
        /\ Len(ret["del"]) = 4 => (ret["del"][4] = "true" /\ ~dirExists["s1"])

\* C7: at most one cleanup run is in progress at any time, the flag isRunning
\* says whether one is, and a run triggered while another is in progress
\* returns at once: it changes neither the disk nor the statistics nor the
\* flag, and the trigger is consumed, not queued.
C7_SingleFlight ==
    /\ [](Cardinality({p \in Procs : Cleaning(p)}) <= 1)
    /\ [](isRunning <=> \E p \in Procs : Cleaning(p))
    /\ [][\A p \in Procs:
            (At(p, "idle", "cleanup") /\ isRunning /\ <<pc[p], prog[p], ret[p], loc[p]>>' # <<pc[p], prog[p], ret[p], loc[p]>>)
               => (/\ UNCHANGED <<dirExists, metaFile, stats, isRunning, lockHolder>>
                   /\ pc'[p] = "idle"
                   /\ ret'[p] = Append(ret[p], "skipped")
                   /\ prog'[p] = Tail(prog[p]))]_vars

\* C7 witness: a trigger has been skipped while another run is deleting.
C7_Witness ==
    \E p, q \in Procs: ret[p] = <<"skipped">> /\ Cleaning(q) /\ pc[q] = "del_get"

\* The session's document says it expired before time t.
ExpiredBefore(s, t) ==
    dirExists[s] /\ metaFile[s].kind = "doc" /\ metaFile[s].expiresAt < t

C9_LockReleasedOnEveryExit ==
    \A s \in Sessions:
        lockHolder[s] # NoProc => InSaveMetadata(lockHolder[s], s)

\* C9 witness: a writer has failed with an I/O error after acquiring the lock
\* and another writer holds the lock of the same session.
C9_Witness ==
    \E p, q \in Procs:
        /\ p # q
        /\ ret[p] = <<"EIO">>
        /\ lockHolder["s1"] = q

Node(tagName, display, src, textContent) ==
    [tagName |-> tagName, display |-> display, src |-> src, textContent |-> textContent]

NodeKinds ==
    { Node("section", "block", "", ""),
      Node("div", "block", "", ""),
      Node("div", "flex", "", ""),
      Node("p", "block", "", "t"),
      Node("img", "block", "a", "") }

\* The parent of every node of a tree of n nodes numbered breadth first: the
\* root is node 1, the children of a node are consecutive and in order.
Shapes(n) ==
    { f \in [1..n -> 0..(n - 1)] :
        /\ f[1] = 0
        /\ \A i \in 2..n : f[i] \in 1..(i - 1)
        /\ \A i \in 2..(n - 1) : f[i] <= f[i + 1] }

\* t is an IR structure of at most MaxNodes nodes, or NoTree, the absent
\* structure.
IsIRTree(t) ==
    \/ t = NoTree
    \/ \E n \in 1..MaxNodes : \E f \in Shapes(n), k \in [1..n -> NodeKinds] :
          t = [n |-> n, parent |-> f, kind |-> k]

\* element.children of node i, in order.
children(t, i) ==
    LET idx == {j \in 1..t.n : t.parent[j] = i} IN
    IF idx = {} THEN <<>>
    ELSE LET first == CHOOSE j \in idx : \A k \in idx : j <= k IN
         [k \in 1..Cardinality(idx) |-> first + k - 1]

\* ------------------------------------------------------------ built elements
\* generateElementId (lines 19-26): eight characters drawn from [a-z0-9]; the
\* model takes one such identifier for all elements.
generateElementId == [i \in 1..8 |-> "a"]

Widget(widgetType, settings) ==
    [id |-> generateElementId, elType |-> "widget", settings |-> settings,
     elements |-> <<>>, widgetType |-> widgetType]

Column(elements) ==
    [id |-> generateElementId, elType |-> "column",
     settings |-> [_column_size |-> 100], elements |-> elements]

Section(elements) ==
    [id |-> generateElementId, elType |-> "section",
     settings |-> [content_width |-> "boxed"], elements |-> elements]

\* a || b on strings.
Or(a, b) == IF a # "" THEN a ELSE b

\* The fallback text-editor widget of lines 656-666, 690-700, 713-723, 729-739
\* and 769-779; text is the element's textContent (its innerHTML is absent).
FallbackTextWidget(text) ==
    Widget("text-editor", [editor |-> Or(text, "Edit this text in Elementor")])

\* buildWidget (lines 1108-1279) for the tags of NodeKinds: an image widget
\* for img, the default text-editor widget otherwise; elements is always [].
buildWidget(element) ==
    IF element.tagName = "img"
    THEN Widget("image", [url |-> element.src])
    ELSE Widget("text-editor", [editor |-> Or(element.textContent, "Text content")])

\* ------------------------------------------------ determineElementorElementType
SectionTags == {"body", "section", "header", "footer", "main", "article", "aside"}

ContentTags ==
    {"p", "span", "a", "h1", "h2", "h3", "h4", "h5", "h6", "img", "button", "input",
     "textarea", "label", "strong", "em", "i", "b", "u", "small", "mark", "del", "ins",
     "sub", "sup", "code", "pre", "blockquote", "ul", "ol", "li"}

StructuralTags == {"div", "section", "header", "footer", "main", "article", "aside", "nav"}

\* determineElementorElementType (lines 802-860); no node of NodeKinds has a
\* layout.width, so the test of line 846 is false.
determineElementorElementType(t, i, parentType) ==
    LET tagName == t.kind[i].tagName
        kids == children(t, i)
        contentTagCount == Cardinality({k \in 1..Len(kids) : t.kind[kids[k]].tagName \in ContentTags})
        structuralChildren == {k \in 1..Len(kids) : t.kind[kids[k]].tagName \in StructuralTags}
    IN
    IF tagName \in SectionTags THEN "section"
    ELSE IF tagName \in {"div", "nav"} /\
            \/ parentType = "section"
            \/ /\ Len(kids) > 0
               /\ \/ contentTagCount > 0 /\ 2 * contentTagCount >= Len(kids)
                  \/ structuralChildren # {}
            \/ t.kind[i].display \in {"flex", "grid"}
         THEN "column"
    ELSE "widget"

\* ------------------------------------------------------------ extractAllImages
\* traverse (lines 254-284) from node i, images being the list collected so
\* far: an img is pushed unless its non-empty src was seen, then the children
\* are visited in order.  The depth limit of 50 is beyond MaxNodes.
RECURSIVE traverse(_, _, _)
RECURSIVE traverseChildren(_, _, _)
traverse(t, i, images) ==
    LET el == t.kind[i]
        seen == el.src # "" /\ \E k \in 1..Len(images) : images[k].src = el.src
    IN
    IF el.tagName = "img"
    THEN IF seen THEN images
         ELSE traverseChildren(t, children(t, i), Append(images, el))
    ELSE traverseChildren(t, children(t, i), images)

traverseChildren(t, kids, images) ==
    IF kids = <<>> THEN images
    ELSE traverseChildren(t, Tail(kids), traverse(t, Head(kids), images))

\* The converter's _imageCache before the first extraction of a page
\* (clearImageCache, line 133).
NoCache == [set |-> FALSE, images |-> <<>>]

\* extractAllImages (lines 246-295) with useCache = true: the cached list once
\* one exists (an empty list counts), else the images below node i, cached.
extractAllImages(t, i, cache) ==
    IF cache.set THEN cache ELSE [set |-> TRUE, images |-> traverse(t, i, <<>>)]

\* -------------------------------------------------- convertStructureToElementor
\* Lines 671-677: the image widgets are pushed into the elements of the first
\* converted child, whatever that child is.
InjectImages(columns, imageWidgets) ==
    IF imageWidgets # <<>> /\ columns # <<>>
    THEN [columns EXCEPT ![1].elements = @ \o imageWidgets]
    ELSE columns

\* Lines 683-703: a section child that is no column is put into a new column,
\* as it is when it is a widget and replaced by a fallback text widget when
\* not (the converted child has neither textContent nor innerHTML).
WrapInColumn(child) ==
    IF child.elType # "column"
    THEN Column(<<IF child.elType = "widget" THEN child ELSE FallbackTextWidget("")>>)
    ELSE child

\* Lines 710-726: a column child that is no widget is replaced by a fallback
\* text widget.
AsWidget(child) ==
    IF child.elType # "widget" THEN FallbackTextWidget("") ELSE child

\* Variant of defaultColumn that synthesizes no column.
defaultColumnMissing(sectionChildren, element) == sectionChildren

\* Lines 651-668: the converted children of a section, or one new column
\* holding a fallback text widget made of the section's text when there are
\* none.
defaultColumn(sectionChildren, element) ==
    IF Len(sectionChildren) > 0 THEN sectionChildren
    ELSE <<Column(<<FallbackTextWidget(element.textContent)>>)>>

MapSeq(Op(_), seq) == [k \in 1..Len(seq) |-> Op(seq[k])]

\* convertElement (lines 636-754) on node i: the converted element and the
\* image cache after it.  determineElementorElementType returns one of the
\* three types, so no element converts to null.
RECURSIVE convertElement(_, _, _, _)
RECURSIVE convertChildren(_, _, _, _)
convertElement(t, i, parentType, cache) ==
    LET element == t.kind[i]
        elementType == determineElementorElementType(t, i, parentType)
    IN
    CASE elementType = "section" ->
            LET cached == extractAllImages(t, i, cache)
                sectionImages == cached.images
                conv == convertChildren(t, children(t, i), "section", cached)
                sectionChildren == conv.els
                columns == defaultColumn(sectionChildren, element)
                injected == InjectImages(columns, MapSeq(buildWidget, sectionImages))
            IN [el |-> Section(MapSeq(WrapInColumn, injected)), cache |-> conv.cache]
      [] elementType = "column" ->
            LET conv == convertChildren(t, children(t, i), "column", cache)
                widgetElements == MapSeq(AsWidget, conv.els)
                finalElements == IF Len(widgetElements) > 0 THEN widgetElements
                                 ELSE <<FallbackTextWidget(element.textContent)>>
            IN [el |-> Column(finalElements), cache |-> conv.cache]
      [] elementType = "widget" ->
            [el |-> buildWidget(element), cache |-> cache]

\* children.map(child => convertElement(child, parentType)), in order.
convertChildren(t, kids, parentType, cache) ==
    IF kids = <<>> THEN [els |-> <<>>, cache |-> cache]
    ELSE LET first == convertElement(t, Head(kids), parentType, cache)
             rest == convertChildren(t, Tail(kids), parentType, first.cache)
         IN [els |-> <<first.el>> \o rest.els, cache |-> rest.cache]

\* convertStructureToElementor (lines 633-800) on a present structure: a root
\* that is no section is put into a new section and column (lines 785-797).
convertStructureToElementor(t) ==
    LET rootElement == convertElement(t, 1, "none", NoCache).el IN
    IF rootElement.elType # "section"
    THEN <<Section(<<Column(<<rootElement>>)>>)>>
    ELSE <<rootElement>>

\* hasValidContent (lines 862-871).
hasValidContent(t) ==
    LET structure == t.kind[1]
        hasText == structure.textContent # ""
        hasChildren == Len(children(t, 1)) > 0
        hasImages == structure.tagName = "img" \/ structure.src # ""
    IN hasText \/ hasChildren \/ hasImages

\* buildComprehensiveTemplate (lines 166-188); the IR gives no page title.
buildComprehensiveTemplate(t) ==
    [version |-> "0.4", title |-> "Cloned Page", type |-> "page",
     content |-> convertStructureToElementor(t),
     page_settings |-> [template |-> "elementor_canvas"],
     metadata |-> [cloned_by |-> "CloneMentor Pro"]]

\* Variant of buildSimpleTemplate that produces no content.
buildSimpleTemplateEmpty ==
    [version |-> "0.4", title |-> "Test Cloned Page", type |-> "page",
     content |-> <<>>,
     page_settings |-> [template |-> "elementor_canvas"],
     metadata |-> [cloned_by |-> "ElementorConverter", fallback_mode |-> TRUE]]

\* buildSimpleTemplate (lines 190-237).
buildSimpleTemplate ==
    [version |-> "0.4", title |-> "Test Cloned Page", type |-> "page",
     content |-> <<Section(<<Column(<<[id |-> generateElementId, elType |-> "widget",
                                       widgetType |-> "heading",
                                       settings |-> [title |-> "Successfully Cloned!"]]>>)>>)>>,
     page_settings |-> [template |-> "elementor_canvas"],
     metadata |-> [cloned_by |-> "ElementorConverter", fallback_mode |-> TRUE]]

\* convertVisualToElementor (lines 129-164).
convertVisualToElementor(t) ==
    IF t # NoTree /\ hasValidContent(t)
    THEN buildComprehensiveTemplate(t)
    ELSE buildSimpleTemplate

\* --------------------------------------------------------- elementorSchema
\* Where in the document a violation is: the indexes of the section, of the
\* column in it and of the item in the column (0: not that deep).
At0 == [section |-> 0, column |-> 0, widget |-> 0]

Violation(at, keyword, field) == [at |-> at, keyword |-> keyword, field |-> field]

\* required: [...] of an object schema.
Required(e, fields, at) == {Violation(at, "required", f) : f \in fields \ DOMAIN e}

\* id: { type: 'string', pattern: '^[a-z0-9]{8}$' }; the model's identifiers
\* are made of the character "a".
IdErrors(e, at) ==
    IF "id" \in DOMAIN e /\ ~(Len(e.id) = 8 /\ \A k \in 1..Len(e.id) : e.id[k] = "a")
    THEN {Violation(at, "pattern", "id")} ELSE {}

\* elType: { type: 'string', enum: [allowed] }.
ElTypeErrors(e, allowed, at) ==
    IF "elType" \in DOMAIN e /\ e.elType # allowed
    THEN {Violation(at, "enum", "elType")} ELSE {}

\* The items of a column's elements (lines 59-75): nothing is said of the
\* item's own elements.
WidgetErrors(w, at) ==
    Required(w, {"id", "elType", "widgetType", "settings"}, at)
        \cup IdErrors(w, at) \cup ElTypeErrors(w, "widget", at)

\* The items of a section's elements (lines 44-78).
ColumnErrors(c, at) ==
    Required(c, {"id", "elType", "settings", "elements"}, at)
        \cup IdErrors(c, at) \cup ElTypeErrors(c, "column", at)
        \cup (IF "elements" \in DOMAIN c
              THEN UNION {WidgetErrors(c.elements[k], [at EXCEPT !.widget = k]) : k \in 1..Len(c.elements)}
              ELSE {})

\* The items of content (lines 28-81).
SectionErrors(s, at) ==
    Required(s, {"id", "elType", "settings", "elements"}, at)
        \cup IdErrors(s, at) \cup ElTypeErrors(s, "section", at)
        \cup (IF "elements" \in DOMAIN s
              THEN (IF Len(s.elements) < 1 THEN {Violation(at, "minItems", "elements")} ELSE {})
                   \cup UNION {ColumnErrors(s.elements[k], [at EXCEPT !.column = k]) : k \in 1..Len(s.elements)}
              ELSE {})

\* The errors ajv (allErrors: true) reports for a document against
\* elementorSchema (lines 8-100).
ValidationErrors(json) ==
    Required(json, {"version", "title", "type", "content"}, At0)
        \cup {Violation(At0, "additionalProperties", f) :
                f \in DOMAIN json \ {"version", "title", "type", "content", "page_settings", "metadata"}}
        \cup (IF "version" \in DOMAIN json /\ json.version # "0.4"
              THEN {Violation(At0, "pattern", "version")} ELSE {})
        \cup (IF "title" \in DOMAIN json /\ json.title = ""
              THEN {Violation(At0, "minLength", "title")} ELSE {})
        \cup (IF "type" \in DOMAIN json
                 /\ json.type \notin {"page", "section", "header", "footer", "single", "archive"}
              THEN {Violation(At0, "enum", "type")} ELSE {})
        \cup (IF "content" \in DOMAIN json
              THEN (IF Len(json.content) < 1 THEN {Violation(At0, "minItems", "content")} ELSE {})
                   \cup UNION {SectionErrors(json.content[k], [At0 EXCEPT !.section = k]) : k \in 1..Len(json.content)}
              ELSE {})

\* validateElementorTemplate (line 103).
validateElementorTemplate(json) == ValidationErrors(json) = {}

\* getValidationErrors(...).slice(0, 8) (clone.js line 241): at most eight of
\* the errors.
FirstErrors(errors) ==
    IF Cardinality(errors) <= 8 THEN errors
    ELSE CHOOSE some \in SUBSET errors : Cardinality(some) = 8

\* ------------------------------------------------ exportTemplate, POST /download
\* JSON.stringify of a document and JSON.parse of the text: the documents of
\* the model are strings, arrays and objects with no undefined member, which
\* the text represents in full.
JSONstringify(doc) == [text |-> doc]
JSONparse(bytes) == bytes.text

ExportModes == {"template", "kit", "other"}

\* exportTemplate (lines 961-1027): the template is converted, then released
\* as JSON text (mode template) or inside a zip archive (mode kit); any other
\* mode throws.
exportTemplate(mode) ==
    /\ out.kind = "none"
    /\ reqMode' = mode
    /\ template' = convertVisualToElementor(ir)
    /\ out' = CASE mode = "template" ->
                     [kind |-> "json", bytes |-> JSONstringify(template'),
                      report |-> [isValid |-> TRUE, mode |-> "template"]]
                [] mode = "kit" ->
                     [kind |-> "zip",
                      bytes |-> [files |-> [name \in {"template.json"} |-> JSONstringify(template')]],
                      report |-> [isValid |-> TRUE, mode |-> "kit"]]
                [] OTHER -> [kind |-> "error", message |-> "Invalid mode"]
    /\ UNCHANGED <<ir, response>>
    /\ UNCHANGED otherThanConv

\* POST /download after exportTemplate (clone.js lines 235-250): JSON output
\* is validated and rejected with status 400 when invalid; any other output is
\* sent; an exception goes to the error handler.
downloadRespond ==
    /\ out.kind # "none"
    /\ response.kind = "none"
    /\ response' =
         IF out.kind = "error" THEN [kind |-> "error", message |-> out.message]
         ELSE IF out.kind = "json" /\ ~validateElementorTemplate(JSONparse(out.bytes))
         THEN [kind |-> "rejected", status |-> 400, code |-> "INVALID_ELEMENTOR_JSON",
               errors |-> FirstErrors(ValidationErrors(JSONparse(out.bytes)))]
         ELSE [kind |-> "sent", status |-> 200,
               contentType |-> IF out.kind = "zip" THEN "application/zip" ELSE "application/json",
               bytes |-> out.bytes]
    /\ UNCHANGED <<ir, reqMode, template, out>>
    /\ UNCHANGED otherThanConv

\* The session store holds fresh unlocked sessions and no call is made.
StoreIdle ==
    /\ now = sessionTTL + 1
    /\ dirExists = [s \in Sessions |-> TRUE]
    /\ metaFile = [s \in Sessions |-> Doc(now + sessionTTL, FALSE, <<>>)]
    /\ lockHolder = [s \in Sessions |-> NoProc]
    /\ pc = [p \in Procs |-> "idle"]
    /\ prog = NoCalls
    /\ ret = [p \in Procs |-> <<>>]
    /\ loc = [p \in Procs |-> NoLoc]
    /\ isRunning = FALSE
    /\ stats = [totalRuns |-> 0, totalSessionsDeleted |-> 0, totalErrors |-> 0]

\* A download request for each IR structure; the session store is idle.
InitConv ==
    /\ StoreIdle
    /\ AssetIdle
    /\ SchedIdle
    /\ LinkIdle
    /\ SchemaIdle
    /\ MapIdle
    /\ CssIdle
    /\ BatchIdle
    /\ IsIRTree(ir)
    /\ reqMode = "none"
    /\ template = NoValue
    /\ out = NoValue
    /\ response = NoValue

NextConv ==
    \/ \E mode \in ExportModes : exportTemplate(mode)
    \/ downloadRespond

SpecConv == InitConv /\ [][NextConv]_vars

\* ------------------------------------------------------ claims of the converter
\* The elements of e, none for an element without the member.
ElementsOf(e) == IF "elements" \in DOMAIN e THEN e.elements ELSE <<>>

\* Below e, every section holds only columns and every column only widgets.
RECURSIVE NestingOk(_)
NestingOk(e) ==
    \A k \in 1..Len(ElementsOf(e)) :
        LET child == ElementsOf(e)[k] IN
        /\ e.elType = "section" => child.elType = "column"
        /\ e.elType = "column" => child.elType = "widget"
        /\ NestingOk(child)

\* Below e, every widget has an empty elements list.
RECURSIVE NoWidgetChildren(_)
NoWidgetChildren(e) ==
    /\ e.elType = "widget" => ElementsOf(e) = <<>>
    /\ \A k \in 1..Len(ElementsOf(e)) : NoWidgetChildren(ElementsOf(e)[k])

\* The template has been produced from an IR structure.
Converted == out.kind # "none" /\ ir # NoTree

\* C4: for every IR tree, in the produced template every element of a
\* section's elements is a column and every element of a column's elements is
\* a widget.
C4_SectionsHoldColumnsHoldWidgets ==
    Converted => \A k \in 1..Len(template.content) : NestingOk(template.content[k])

\* C5: for every IR tree, no widget of the produced template has children.
C5_NoWidgetHasChildren ==
    Converted => \A k \in 1..Len(template.content) : NoWidgetChildren(template.content[k])

\* The template inside the bytes sent to the caller.
ReleasedTemplate ==
    IF out.kind = "zip" THEN JSONparse(response.bytes.files["template.json"])
    ELSE JSONparse(response.bytes)

\* C6: every export released to the caller, in template mode and in kit mode,
\* contains a template that passes schema validation; when the produced
\* template fails validation the caller gets the list of violations and no
\* template bytes.
C6_ReleasedExportsAreValid ==
    /\ response.kind = "sent" => validateElementorTemplate(ReleasedTemplate)
    /\ (response.kind # "none" /\ out.kind \in {"json", "zip"}
            /\ ~validateElementorTemplate(template))
          => (response.kind = "rejected" /\ response.errors # {})

\* The converter finds no content in the IR: the structure is absent or
\* hasValidContent rejects it (no text, no children, no image at the root).
NoExtractableContent(t) == t = NoTree \/ ~hasValidContent(t)

\* e is a widget without children that shows a fixed placeholder text.
PlaceholderWidget(e) ==
    /\ e.elType = "widget"
    /\ ElementsOf(e) = <<>>
    /\ \/ e.widgetType = "heading" /\ e.settings.title = "Successfully Cloned!"
       \/ e.widgetType = "text-editor"
            /\ e.settings.editor \in {"Edit this text in Elementor", "Text content"}

MaxAssets == 2

\* A URL is its origin (host, empty for a relative URL), the segments of its
\* path and its query string.
Url(host, path, q) == [host |-> host, path |-> path, query |-> q]

Hosts == {"a.com", "b.com"}
Paths == {<<"logo.png">>, <<"img", "logo.png">>}
Queries == {"", "v=2"}
Urls == {Url(h, pa, q) : h \in Hosts, pa \in Paths, q \in Queries}

\* An asset descriptor as POST /download builds it from assetUrls (clone.js
\* lines 193-199): absoluteUrl is the original URL.
Asset(originalUrl, localUrl) ==
    [originalUrl |-> originalUrl, absoluteUrl |-> originalUrl, localUrl |-> localUrl]

Assets == {Asset(u, l) : u \in Urls, l \in {"/local/1", "/local/2"}}

\* normalizeUrl (lines 373-381): new URL(url, base).pathname, the path
\* without origin, query string and fragment.
normalizeUrl(url) == url.path

\* getFilename (lines 399-402): the last segment of the normalized path.
getFilename(url) ==
    LET normalized == normalizeUrl(url) IN
    IF normalized = <<>> THEN "" ELSE normalized[Len(normalized)]

\* Array.prototype.find: the first element of list that satisfies Test, or
\* null.
Find(list, Test(_)) ==
    LET hits == {k \in 1..Len(list) : Test(list[k])} IN
    IF hits = {} THEN NoAsset
    ELSE list[CHOOSE k \in hits : \A j \in hits : k <= j]

\* findMatchingAsset (lines 367-416).
findMatchingAsset(url, list) ==
    IF url = NoUrl \/ list = <<>> THEN NoAsset
    ELSE
    LET normalizedImageUrl == normalizeUrl(url)
        exact == Find(list, LAMBDA img : img.originalUrl = url \/ img.absoluteUrl = url)
        normalized == Find(list, LAMBDA img :
                             \/ normalizeUrl(img.originalUrl) = normalizedImageUrl
                             \/ normalizeUrl(img.absoluteUrl) = normalizedImageUrl)
        imageFilename == getFilename(url)
        byName == Find(list, LAMBDA img :
                         /\ getFilename(img.originalUrl) # ""
                         /\ getFilename(img.originalUrl) = imageFilename)
    IN
    IF exact # NoAsset THEN exact
    ELSE IF normalized # NoAsset THEN normalized
    ELSE IF imageFilename # "" /\ byName # NoAsset THEN byName
    ELSE NoAsset

\* u with the query string q appended.
WithQuery(u, q) == [u EXCEPT !.query = q]

\* The bare URL and the URL with the query string are looked up in the list.
lookup ==
    /\ found.kind = "none"
    /\ found' = [kind |-> "done",
                 bare |-> findMatchingAsset(imageUrl, assetImages),
                 withQuery |-> findMatchingAsset(WithQuery(imageUrl, query), assetImages)]
    /\ UNCHANGED <<assetImages, imageUrl, query>>
    /\ UNCHANGED otherThanAsset

\* Any asset list of at most MaxAssets entries, any bare URL and any query
\* string.
InitAsset ==
    /\ StoreIdle
    /\ ConvIdle
    /\ SchedIdle
    /\ LinkIdle
    /\ SchemaIdle
    /\ MapIdle
    /\ CssIdle
    /\ BatchIdle
    /\ \E n \in 0..MaxAssets : assetImages \in [1..n -> Assets]
    /\ imageUrl \in {u \in Urls : u.query = ""}
    /\ query \in Queries \ {""}
    /\ found = NoValue

NextAsset == lookup

SpecAsset == InitAsset /\ [][NextAsset]_vars

\* C12: for any asset list and any image URL u, looking up u with a query
\* string appended returns the same asset descriptor as looking up the bare u.
C12_QueryStringIgnored ==
    found.kind = "done" => found.withQuery = found.bare

\* ------------------------------------------------------------------- C13
\* The session is on disk and its metadata cannot be parsed.
CorruptOnDisk(s) == dirExists[s] /\ metaFile[s] = Corrupt

\* C13: a session whose metadata is corrupt is treated as expired: a cleanup
\* run that starts deleting has it among the sessions getExpiredSessions
\* returned, and when the run has attempted all its deletions the session is
\* no longer on disk.
C13_CorruptSessionsRemoved ==
    \A c \in Procs:
        /\ (Cleaning(c) /\ pc[c] = "rc_call" /\ loc[c].idx = 1)
              => \A s \in Sessions: CorruptOnDisk(s) => s \in Range(loc[c].expired)
        /\ (Cleaning(c) /\ pc[c] = "rc_stats")
              => \A s \in Sessions: ~CorruptOnDisk(s)

\* ------------------------------------------------------------------- C14
\* The run of c is inside its deletion loop (lines 157-171).
InDeletionLoop(c) ==
    Cleaning(c) /\ pc[c] \in {"rc_call", "del_get", "del_check", "del_rm"}

\* C14: within one cleanup run deleteSession is attempted for every session
\* getExpiredSessions returned: each attempt made so far is counted as deleted
\* or as failed, a failed one is followed by the attempt on the next session,
\* and the loop is left only when all of them have been attempted.
C14_EveryExpiredSessionAttempted ==
    \A c \in Procs:
        /\ InDeletionLoop(c)
              => /\ loc[c].idx \in 1..Len(loc[c].expired)
                 /\ loc[c].deleted + loc[c].failed = loc[c].idx - 1
        /\ (Cleaning(c) /\ pc[c] = "rc_stats")
              => /\ loc[c].idx = Len(loc[c].expired) + 1
                 /\ loc[c].deleted + loc[c].failed = Len(loc[c].expired)

\* C14 witness: a run has finished its loop over two expired sessions; the
\* first was skipped because it is locked and is still on disk, the second
\* was attempted after it and deleted.
C14_Witness ==
    \E c \in Procs:
        /\ Cleaning(c) /\ pc[c] = "rc_stats"
        /\ loc[c].expired = <<"s1", "s2">>
        /\ loc[c].failed = 1 /\ loc[c].deleted = 1
        /\ dirExists["s1"] /\ metaFile["s1"].kind = "doc" /\ metaFile["s1"].locked
        /\ ~dirExists["s2"]

\* ------------------------------------------------------------------- C15
\* C15: shutdown() stops the scheduler only when no cleanup run is in progress
\* or the bounded wait has elapsed, so a run that finishes within the bound has
\* finished before the scheduler is stopped; and a shutdown() that waits always
\* terminates.
C15_ShutdownWaitsBounded ==
    /\ [][(task /\ ~task') => (~isRunning \/ waited' >= MaxPolls)]_vars
    /\ (shutdownPc = "wait" ~> shutdownPc = "done")

\* C15 witness: shutdown() has waited for a run in progress, the run has
\* finished within the bound and the scheduler has been stopped after it.
C15_Witness ==
    /\ shutdownPc = "done" /\ ~task
    /\ waited \in 1..(MaxPolls - 1)
    /\ ~isRunning
    /\ stats.totalRuns >= 1

\* ------------------------------------------------------------------- C16
\* C16: saveMetadata never waits for the file lock without bound: a writer
\* makes at most MaxRetries retries, is rejected with ELOCKED only when the
\* lock is held by another writer at its last attempt, and every writer that
\* waits for the lock comes to acquire it or to fail with an error.
C16_LockWaitBounded ==
    /\ [](\A p \in Procs: pc[p] = "sm_lock" => loc[p].attempts \in 0..MaxRetries)
    /\ [][\A p \in Procs:
            (pc[p] = "sm_lock" /\ ret'[p] = Append(ret[p], "ELOCKED"))
                => /\ loc[p].attempts = MaxRetries
                   /\ lockHolder[Sid(p)] \notin {NoProc, p}]_vars
    /\ \A p \in Procs: (pc[p] = "sm_lock" ~> pc[p] # "sm_lock")

\* C16 witness: a writer has used its whole retry budget and failed with
\* ELOCKED while the other writer, still inside saveMetadata, holds the lock.
C16_Witness ==
    \E p, q \in Procs:
        /\ p # q
        /\ ret[p] = <<"ELOCKED">>
        /\ lockHolder["s1"] = q /\ pc[q] \in {"sm_open", "sm_write", "sm_release"}

\* ================================================================ CSSDownloader
\* Largest number of @import declarations of one stylesheet.
MaxImports == 2

\* options.maxImportDepth, 10 in the source (line 25).
MaxImportDepth == 2

\* CSS text is a sequence of tokens: an @import declaration of a URL, a rule
\* holding one url() reference (relative while base is ""), and the comments
\* resolveImports writes.
Token(t, url, base) == [t |-> t, url |-> url, base |-> base]
ImportDecl(url) == Token("import", url, "")

\* A stylesheet as served: its @import declarations, then a rule with a
\* relative url() reference.
Stylesheet(u, imports) ==
    [k \in 1..Len(imports) |-> ImportDecl(imports[k])] \o <<Token("rule", u, "")>>

\* The sequences of at most n distinct stylesheet URLs.
ImportLists(n) ==
    UNION {{l \in [1..m -> CssUrls] : \A i, j \in 1..m : l[i] = l[j] => i = j} : m \in 0..n}

\* extractImports (lines 142-159): the URLs of the @import declarations, in
\* order.
extractImports(css) ==
    LET decls == SelectSeq(css, LAMBDA tk : tk.t = "import") IN
    [k \in 1..Len(decls) |-> decls[k].url]

\* String.prototype.replace with a string pattern: the first occurrence of
\* decl is replaced by the text by; nothing changes when there is none.
replace(css, decl, by) ==
    LET hits == {k \in 1..Len(css) : css[k] = decl} IN
    IF hits = {} THEN css
    ELSE LET k == CHOOSE h \in hits : \A j \in hits : h <= j IN
         SubSeq(css, 1, k - 1) \o by \o SubSeq(css, k + 1, Len(css))

\* rewriteRelativeUrls (lines 242-267): every relative url() reference is
\* resolved against baseUrl; absolute ones are kept.
rewriteRelativeUrls(css, baseUrl) ==
    [k \in 1..Len(css) |->
        IF css[k].t = "rule" /\ css[k].base = ""
        THEN [css[k] EXCEPT !.base = baseUrl]
        ELSE css[k]]

\* An activation of resolveImports(css, baseUrl, depth) (lines 169-184): at
\* the depth bound, or with no @import, it returns css at once.
Frame(css, baseUrl, depth) ==
    [css |-> css, url |-> baseUrl, depth |-> depth, idx |-> 1,
     imports |-> IF depth >= MaxImportDepth THEN <<>> ELSE extractImports(css)]

\* resolveImports (lines 186-229) and the end of downloadAndProcessCSS (lines
\* 293-321), run from the current import of the innermost activation up to
\* the next GET: an import whose URL is in downloadedUrls is commented out
\* (lines 213-218); an activation that has gone through its imports returns,
\* and its caller splices the rewritten text in place of the declaration
\* (lines 199-211); when the outermost one returns the CSS is rewritten and
\* saved.
RECURSIVE run(_, _)
run(c, downloaded) ==
    LET n == Len(c.stack)
        f == c.stack[n]
    IN
    IF f.idx > Len(f.imports)
    THEN IF n = 1
         THEN [c EXCEPT !.status = "done", !.stack = <<>>, !.saved = TRUE,
                        !.processedCSS = rewriteRelativeUrls(f.css, f.url)]
         ELSE LET caller == c.stack[n - 1]
                  url == caller.imports[caller.idx]
                  rewrittenContent == rewriteRelativeUrls(f.css, f.url)
                  inlined == <<Token("inlined from", url, "")>> \o rewrittenContent
                                \o <<Token("end inlined", "", "")>>
                  resumed == [caller EXCEPT !.css = replace(@, ImportDecl(url), inlined),
                                            !.idx = @ + 1]
              IN run([c EXCEPT !.stack = SubSeq(c.stack, 1, n - 2) \o <<resumed>>], downloaded)
    ELSE LET url == f.imports[f.idx] IN
         IF url \in downloaded
         THEN LET skipped == [f EXCEPT !.css = replace(@, ImportDecl(url),
                                                  <<Token("could not inline", url, "")>>),
                                       !.idx = @ + 1]
              IN run([c EXCEPT !.stack = SubSeq(c.stack, 1, n - 1) \o <<skipped>>], downloaded)
         ELSE [c EXCEPT !.status = "fetching", !.pending = url]

\* downloadAndProcessCSS (lines 277-285) up to the GET of downloadCSS (lines
\* 93-110): the shared set is cleared and the main stylesheet requested.
downloadAndProcessCSS(k) ==
    /\ cssCall[k].status = "idle"
    /\ downloadedUrls' = {}
    /\ cssCall' = [cssCall EXCEPT ![k].status = "fetching", ![k].pending = cssCall[k].cssUrl]
    /\ UNCHANGED web
    /\ UNCHANGED otherThanCss

\* downloadCSS (lines 110-128): the GET answers; the URL is marked as
\* downloaded and the text handed to resolveImports, by downloadAndProcessCSS
\* at depth 0 (lines 293-297) or by resolveImports one level deeper (lines
\* 193-197).
downloadCSSResponse(k) ==
    LET c == cssCall[k]
        u == c.pending
        depth == IF c.stack = <<>> THEN 0 ELSE c.stack[Len(c.stack)].depth + 1
        entered == [c EXCEPT !.pending = "",
                             !.fetched = Append(@, u),
                             !.stack = Append(@, Frame(web[u].content, u, depth))]
    IN
    /\ c.status = "fetching"
    /\ web[u].ok
    /\ downloadedUrls' = downloadedUrls \cup {u}
    /\ cssCall' = [cssCall EXCEPT ![k] = run(entered, downloadedUrls')]
    /\ UNCHANGED web
    /\ UNCHANGED otherThanCss

\* downloadCSS throws (lines 131-134: the GET failed or the text is too
\* large): downloadAndProcessCSS returns null (lines 327-330), resolveImports
\* comments the import out and goes on (lines 219-227).
downloadCSSError(k) ==
    LET c == cssCall[k]
        u == c.pending
        n == Len(c.stack)
    IN
    /\ c.status = "fetching"
    /\ ~web[u].ok
    /\ cssCall' = [cssCall EXCEPT ![k] =
          IF c.stack = <<>>
          THEN [c EXCEPT !.status = "done", !.pending = ""]
          ELSE LET f == c.stack[n]
                   failed == [f EXCEPT !.css = replace(@, ImportDecl(u),
                                                <<Token("failed to inline", u, "")>>),
                                       !.idx = @ + 1]
               IN run([c EXCEPT !.pending = "",
                                !.stack = SubSeq(c.stack, 1, n - 1) \o <<failed>>],
                      downloadedUrls)]
    /\ UNCHANGED <<web, downloadedUrls>>
    /\ UNCHANGED otherThanCss

\* Any import graph over the stylesheet URLs, c.css possibly failing; the
\* first call is for a.css, the second for any of them.
InitCss ==
    /\ StoreIdle
    /\ ConvIdle
    /\ AssetIdle
    /\ SchedIdle
    /\ LinkIdle
    /\ SchemaIdle
    /\ MapIdle
    /\ BatchIdle
    /\ \E imports \in [CssUrls -> ImportLists(MaxImports)], ok \in [CssUrls -> BOOLEAN]:
          /\ \A u \in CssUrls: ~ok[u] => (u = "http://x/c.css" /\ imports[u] = <<>>)
          /\ web = [u \in CssUrls |->
                      [ok |-> ok[u],
                       content |-> IF ok[u] THEN Stylesheet(u, imports[u]) ELSE <<>>]]
    /\ downloadedUrls = {}
    /\ \E second \in CssUrls:
          cssCall = [k \in CssCalls |->
                       [NoCssCall EXCEPT !.cssUrl = IF k = 1 THEN "http://x/a.css" ELSE second]]

NextCss ==
    \E k \in CssCalls:
        \/ downloadAndProcessCSS(k)
        \/ downloadCSSResponse(k)
        \/ downloadCSSError(k)

SpecCss == InitCss /\ [][NextCss]_vars

\* ------------------------------------------------------------------- C17
\* The number of tokens of kind t in css.
Count(css, t) == Cardinality({k \in 1..Len(css) : css[k].t = t})

\* a.css imports b.css and b.css imports a.css.
ImportCycle ==
    /\ web["http://x/a.css"] = [ok |-> TRUE,
          content |-> Stylesheet("http://x/a.css", <<"http://x/b.css">>)]
    /\ web["http://x/b.css"] = [ok |-> TRUE,
          content |-> Stylesheet("http://x/b.css", <<"http://x/a.css">>)]

\* C17: import resolution stays within the depth bound for every import
\* graph; within one downloadAndProcessCSS call each stylesheet URL is
\* downloaded at most once; and for a.css importing b.css importing a.css the
\* final CSS of a.css contains exactly one "Could not inline" marker.
C17_EachUrlDownloadedOnce ==
    \A k \in CssCalls:
        LET c == cssCall[k] IN
        /\ Len(c.stack) <= MaxImportDepth + 1
        /\ \A i, j \in 1..Len(c.fetched): c.fetched[i] = c.fetched[j] => i = j
        /\ (ImportCycle /\ c.saved /\ c.cssUrl = "http://x/a.css")
              => Count(c.processedCSS, "could not inline") = 1

\* ------------------------------------------------------------------- C18
\* C18: in the CSS that downloadAndProcessCSS saves, no @import declaration
\* is left in place: each one was inlined or replaced by a comment marker.
C18_NoImportLeftInPlace ==
    \A k \in CssCalls:
        cssCall[k].saved => Count(cssCall[k].processedCSS, "import") = 0

\* ============================================================ batch downloads
\* Largest length of the input list, and largest concurrency argument (the
\* defaults are 5 for images, 3 for CSS and 3 for fonts).
MaxUrls == 5
MaxConcurrency == 2

\* The descriptor a download of position i resolves with (downloadImage,
\* lines 268-276).
Descriptor(i) == [originalUrl |-> imageUrls[i], position |-> i]

\* Variant of startBatch that starts the downloads of the whole queue at once.
startBatchUnbounded(q) ==
    /\ batch' = q
    /\ queue' = <<>>
    /\ inFlight' = Range(q)
    /\ settled' = [i \in DOMAIN settled |-> IF i \in Range(q) THEN "pending" ELSE settled[i]]
    /\ attempts' = [i \in DOMAIN attempts |-> attempts[i] + (IF i \in Range(q) THEN 1 ELSE 0)]
    /\ batchPc' = "awaiting"

\* One iteration of the while loop up to its await (downloadImages, lines
\* 299-302): the first `concurrency` positions of queue q are spliced off and
\* a download is started for each.
startBatch(q) ==
    LET n == IF Len(q) < concurrency THEN Len(q) ELSE concurrency
        b == SubSeq(q, 1, n)
    IN
    /\ batch' = b
    /\ queue' = SubSeq(q, n + 1, Len(q))
    /\ inFlight' = Range(b)
    /\ settled' = [i \in DOMAIN settled |-> IF i \in Range(b) THEN "pending" ELSE settled[i]]
    /\ attempts' = [i \in DOMAIN attempts |-> attempts[i] + (IF i \in Range(b) THEN 1 ELSE 0)]
    /\ batchPc' = "awaiting"

\* downloadImages (lines 291-302), downloadMultipleCSS (lines 341-354) and the
\* loop of downloadFontsFromDeclarations (lines 370-376): the queue is a copy
\* of the input; with an empty input the empty result is returned.
downloadImages ==
    /\ batchPc = "idle"
    /\ IF imageUrls = <<>>
       THEN /\ batchPc' = "done"
            /\ UNCHANGED <<queue, batch, inFlight, settled, attempts>>
       ELSE startBatch([i \in 1..Len(imageUrls) |-> i])
    /\ UNCHANGED <<fetchOk, imageUrls, concurrency, results>>
    /\ UNCHANGED otherThanBatch

\* downloadImage (lines 226-282) of position i settles: with the descriptor,
\* or with null when the download failed (the catch block returns null).
downloadImage(i) ==
    /\ batchPc = "awaiting"
    /\ i \in inFlight
    /\ inFlight' = inFlight \ {i}
    /\ settled' = [settled EXCEPT ![i] = IF fetchOk[imageUrls[i]] THEN "descriptor" ELSE "null"]
    /\ UNCHANGED <<fetchOk, imageUrls, concurrency, queue, batch, attempts, results, batchPc>>
    /\ UNCHANGED otherThanBatch

\* Variant of batchSettled that gives up the whole batch download and returns
\* the empty list when a download of the batch has failed.
batchSettledFailFast ==
    /\ batchPc = "awaiting"
    /\ inFlight = {}
    /\ IF \E k \in 1..Len(batch): settled[batch[k]] = "null"
       THEN /\ results' = <<>>
            /\ batchPc' = "done"
            /\ UNCHANGED <<queue, batch, inFlight, settled, attempts>>
       ELSE /\ results' = results \o [k \in 1..Len(batch) |-> Descriptor(batch[k])]
            /\ IF queue = <<>>
               THEN /\ batchPc' = "done"
                    /\ UNCHANGED <<queue, batch, inFlight, settled, attempts>>
               ELSE startBatch(queue)
    /\ UNCHANGED <<fetchOk, imageUrls, concurrency>>
    /\ UNCHANGED otherThanBatch

\* Promise.allSettled of the batch resolves (downloadImages, lines 302-318):
\* the values of the fulfilled downloads that are not null are pushed in the
\* order of the batch; then the next batch is started, or the results are
\* returned.
batchSettled ==
    /\ batchPc = "awaiting"
    /\ inFlight = {}
    /\ LET fulfilled == SelectSeq(batch, LAMBDA i : settled[i] = "descriptor") IN
       results' = results \o [k \in 1..Len(fulfilled) |-> Descriptor(fulfilled[k])]
    /\ IF queue = <<>>
       THEN /\ batchPc' = "done"
            /\ UNCHANGED <<queue, batch, inFlight, settled, attempts>>
       ELSE startBatch(queue)
    /\ UNCHANGED <<fetchOk, imageUrls, concurrency>>
    /\ UNCHANGED otherThanBatch

\* Any input list of at most MaxUrls URLs, duplicates included, any
\* concurrency, and any set of URLs whose download fails.
InitBatch ==
    /\ StoreIdle
    /\ ConvIdle
    /\ AssetIdle
    /\ SchedIdle
    /\ LinkIdle
    /\ SchemaIdle
    /\ MapIdle
    /\ CssIdle
    /\ fetchOk \in [BatchUrls -> BOOLEAN]
    /\ \E n \in 0..MaxUrls : imageUrls \in [1..n -> BatchUrls]
    /\ concurrency \in 1..MaxConcurrency
    /\ queue = <<>>
    /\ batch = <<>>
    /\ inFlight = {}
    /\ settled = [i \in 1..Len(imageUrls) |-> "none"]
    /\ attempts = [i \in 1..Len(imageUrls) |-> 0]
    /\ results = <<>>
    /\ batchPc = "idle"

NextBatch ==
    \/ downloadImages
    \/ \E i \in DOMAIN attempts : downloadImage(i)
    \/ batchSettled

SpecBatch == InitBatch /\ [][NextBatch]_vars

\* ------------------------------------------------------------------- C19
\* The positions of the input whose download succeeds, in input order.
Succeeding ==
    SelectSeq([i \in 1..Len(imageUrls) |-> i], LAMBDA i : fetchOk[imageUrls[i]])

\* C19: a batch download starts the download of every input URL exactly once
\* and returns the descriptors of exactly those that succeeded: no download
\* is started twice, and when the batch returns every position has been
\* attempted once and the result is the list of the descriptors of the
\* succeeding positions, whatever failed.
C19_EveryUrlAttemptedOnce ==
    /\ \A i \in DOMAIN attempts: attempts[i] <= 1
    /\ batchPc = "done"
          => /\ \A i \in DOMAIN attempts: attempts[i] = 1
             /\ results = [k \in 1..Len(Succeeding) |-> Descriptor(Succeeding[k])]

\* C19 witness: a batch download of three batches has returned; a download of
\* the first batch failed and downloads of later batches succeeded.
C19_Witness ==
    /\ batchPc = "done"
    /\ Len(imageUrls) = MaxUrls /\ concurrency = 2
    /\ settled[1] = "null"
    /\ settled[2] = "descriptor" /\ settled[MaxUrls] = "descriptor"
    /\ Len(results) >= 2

\* ------------------------------------------------------------------- C20
\* C20: at no time are more than `concurrency` downloads of one batch
\* download in flight, whatever the length of the input list.
C20_InFlightBounded ==
    Cardinality(inFlight) <= concurrency

\* C20 witness: `concurrency` downloads are in flight while more URLs than
\* that wait in the queue.
C20_Witness ==
    /\ Cardinality(inFlight) = concurrency
    /\ concurrency = MaxConcurrency
    /\ Len(queue) > concurrency

\* ============================================================ asset URL map
\* Largest number of images downloaded into the session.
MaxImages == 3

\* The page the images come from (baseUrl of downloadImage).
BaseHost == "a.com"

\* Image URLs as the page writes them: one relative, two absolute.
ImageSrcs == {Url("", <<"logo.png">>, ""), Url("a.com", <<"img", "logo.png">>, ""),
              Url("b.com", <<"logo.png">>, "")}

\* new URL(imageUrl, baseUrl).href for a URL that does not start with http
\* (image-downloader.js lines 235-238).
resolveUrl(u) == IF u.host = "" THEN [u EXCEPT !.host = BaseHost] ELSE u

\* generateFilename (image-downloader.js lines 63-104): the cleaned base name, the
\* first 12 digits of the md5 hash of the absolute URL and the extension.
generateFilename(url) ==
    CASE url = Url("a.com", <<"logo.png">>, "") -> "logo.png_5d41402abc4b.png"
      [] url = Url("a.com", <<"img", "logo.png">>, "") -> "logo.png_7d793037a076.png"
      [] url = Url("b.com", <<"logo.png">>, "") -> "logo.png_9a0364b9e99b.png"
      [] OTHER -> "logo.png_e4da3b7fbbce.png"

\* `/api/assets/${assetSession}/images/${img.filename}` (clone.js line 222)
\* for the session "s1".
localUrlOf(filename) ==
    CASE filename = "logo.png_5d41402abc4b.png" -> "/api/assets/s1/images/logo.png_5d41402abc4b.png"
      [] filename = "logo.png_7d793037a076.png" -> "/api/assets/s1/images/logo.png_7d793037a076.png"
      [] filename = "logo.png_9a0364b9e99b.png" -> "/api/assets/s1/images/logo.png_9a0364b9e99b.png"
      [] OTHER -> "/api/assets/s1/images/logo.png_e4da3b7fbbce.png"

\* A successful downloadImage(sessionId, u, baseUrl) (image-downloader.js
\* lines 226-276): saveAsset (storage-manager lines 204-229) builds the
\* asset info {filename, path, size, savedAt} and trackAsset (lines 161-183)
\* pushes it on metadata.assets.images; the descriptor with originalUrl and
\* absoluteUrl is returned to the caller and is not stored.
downloadImageSaved(u) ==
    /\ assetMapping = NoValue
    /\ Len(sessionImages) < MaxImages
    /\ LET absoluteUrl == resolveUrl(u)
           filename == generateFilename(absoluteUrl)
           assetInfo == [filename |-> filename, size |-> 1]
       IN
       /\ sessionImages' = Append(sessionImages, assetInfo)
       /\ downloadedImages' = Append(downloadedImages,
                                     [originalUrl |-> u, absoluteUrl |-> absoluteUrl,
                                      filename |-> assetInfo.filename])
    /\ UNCHANGED <<assetMapping, imageWidget>>
    /\ UNCHANGED otherThanMap

\* Reading property name of the object obj: undefined, which NoUrl stands
\* for, when obj has no such property.
Get(obj, name) == IF name \in DOMAIN obj THEN obj[name] ELSE NoUrl

\* validateAssetMapping (elementor-converter.js lines 310-358): the entries
\* with a truthy originalUrl and a truthy localUrl are kept.
validateAssetMapping(images) ==
    SelectSeq(images, LAMBDA img : img.originalUrl # NoUrl /\ img.localUrl # "")

\* POST /download with assetSession and without assetUrls (clone.js lines
\* 210-233): the mapping is built from sessionInfo.assets.images;
\* convertVisualToElementor (line 137) keeps its validated form.
buildAssetMapping ==
    /\ assetMapping = NoValue
    /\ LET images == [k \in 1..Len(sessionImages) |->
                        [originalUrl |-> Get(sessionImages[k], "originalUrl"),
                         absoluteUrl |-> Get(sessionImages[k], "absoluteUrl"),
                         localUrl |-> localUrlOf(sessionImages[k].filename)]]
       IN assetMapping' = [kind |-> "mapping", images |-> validateAssetMapping(images)]
    /\ UNCHANGED <<sessionImages, downloadedImages, imageWidget>>
    /\ UNCHANGED otherThanMap

\* buildWidget for an img element whose src is src (elementor-converter.js
\* lines 1134-1163): settings.image.url is the local URL of the matching
\* asset when there is one, src otherwise.
buildImageWidget(src) ==
    /\ assetMapping # NoValue
    /\ imageWidget = NoValue
    /\ LET downloadedImage ==
               IF Len(assetMapping.images) > 0
               THEN findMatchingAsset(src, assetMapping.images)
               ELSE NoAsset
           assetFound == downloadedImage # NoAsset /\ downloadedImage.localUrl # ""
       IN imageWidget' = [kind |-> "image", src |-> src, assetFound |-> assetFound,
                          localUrl |-> IF assetFound THEN downloadedImage.localUrl ELSE ""]
    /\ UNCHANGED <<sessionImages, downloadedImages, assetMapping>>
    /\ UNCHANGED otherThanMap

\* Images are downloaded into a session, then a download request builds the
\* mapping from the session and an image widget.
InitMap ==
    /\ StoreIdle
    /\ ConvIdle
    /\ AssetIdle
    /\ SchedIdle
    /\ LinkIdle
    /\ SchemaIdle
    /\ MapIdle
    /\ CssIdle
    /\ BatchIdle

NextMap ==
    \/ \E u \in ImageSrcs : downloadImageSaved(u)
    \/ buildAssetMapping
    \/ \E u \in ImageSrcs : buildImageWidget(u) \/ buildImageWidget(resolveUrl(u))

SpecMap == InitMap /\ [][NextMap]_vars

\* C21: the asset mapping built from the session's stored asset list holds,
\* for every image downloaded into the session, an entry from its original
\* and absolute URL to its local URL, and an image widget whose source is
\* the original or absolute URL of a downloaded image is rewritten to the
\* local copy.
C21_DownloadedImagesMapped ==
    /\ assetMapping # NoValue =>
          \A k \in DOMAIN downloadedImages :
             \E j \in DOMAIN assetMapping.images :
                /\ assetMapping.images[j].originalUrl = downloadedImages[k].originalUrl
                /\ assetMapping.images[j].absoluteUrl = downloadedImages[k].absoluteUrl
                /\ assetMapping.images[j].localUrl = localUrlOf(downloadedImages[k].filename)
    /\ imageWidget # NoValue =>
          \A k \in DOMAIN downloadedImages :
             imageWidget.src \in {downloadedImages[k].originalUrl,
                                  downloadedImages[k].absoluteUrl}
                => /\ imageWidget.assetFound
                   /\ \E j \in DOMAIN downloadedImages :
                         /\ imageWidget.src \in {downloadedImages[j].originalUrl,
                                                 downloadedImages[j].absoluteUrl}
                         /\ imageWidget.localUrl = localUrlOf(downloadedImages[j].filename)

\* ===================================================== ElementorValidator
\* Largest number of elements of a template handed to the validator.
MaxElements == 4

ElTypes == {"section", "column", "widget"}

\* The element at node i of the skeleton t: an object with id, elType,
\* settings and elements (its children in order), and widgetType when it is
\* a widget.
RECURSIVE Element(_, _)
Element(t, i) ==
    LET kids == children(t, i)
        base == [id |-> generateElementId, elType |-> t.kind[i], settings |-> <<>>,
                 elements |-> [k \in 1..Len(kids) |-> Element(t, kids[k])]]
    IN IF t.kind[i] = "widget" THEN base @@ [widgetType |-> "text-editor"] ELSE base

\* The template document whose content is the children of the root of the
\* skeleton t, with the optional page_settings and metadata objects.
TemplateOf(t, pageSettings, metadata) ==
    LET kids == children(t, 1) IN
    [version |-> "0.4", title |-> "Cloned Page", type |-> "page",
     content |-> [k \in 1..Len(kids) |-> Element(t, kids[k])]]
    @@ (CASE pageSettings = "absent" -> <<>>
          [] pageSettings = "empty" -> [page_settings |-> <<>>]
          [] OTHER -> [page_settings |-> [template |-> pageSettings]])
    @@ (IF metadata = "absent" THEN <<>>
        ELSE [metadata |-> [source_url |-> metadata]])

\* The templates of the model: every nesting of at most MaxElements elements
\* of the three element types.
IsTemplate(doc) ==
    \E n \in 0..MaxElements :
       \E f \in Shapes(n + 1), k \in [2..(n + 1) -> ElTypes],
          pageSettings \in {"absent", "empty", "default"},
          metadata \in {"absent", "http://a.com/"} :
          doc = TemplateOf([n |-> n + 1, parent |-> f,
                            kind |-> [i \in 1..(n + 1) |-> IF i = 1 THEN "template" ELSE k[i]]],
                           pageSettings, metadata)

\* countElementsByType (lines 177-198) over the elements of a list and what
\* they hold.
RECURSIVE countElementsByType(_, _)
countElementsByType(elements, type) ==
    IF elements = <<>> THEN 0
    ELSE (IF elements[1].elType = type THEN 1 ELSE 0)
         + countElementsByType(ElementsOf(elements[1]), type)
         + countElementsByType(Tail(elements), type)

\* new Date().toISOString() at the two instants a template can be enhanced.
Timestamps == {"2025-01-01T00:00:00.000Z", "2025-01-01T00:00:01.000Z"}

\* Variant of enhanceTemplateStructure that stamps the template itself
\* and not its metadata.
enhanceTemplateStructureStampsTemplate(doc, ts) ==
    [created_at |-> ts, elementor_version |-> "3.16.0", export_date |-> ts] @@ doc

\* enhanceTemplateStructure (lines 135-153) at the instant ts: a deep copy
\* with the missing version, type and page_settings.template filled in and
\* the metadata stamped.
enhanceTemplateStructure(doc, ts) ==
    LET enhanced == JSONparse(JSONstringify(doc))
        withVersion == IF "version" \notin DOMAIN enhanced \/ enhanced.version = ""
                       THEN [version |-> "0.4"] @@ enhanced ELSE enhanced
        withType == IF "type" \notin DOMAIN withVersion \/ withVersion.type = ""
                    THEN [type |-> "page"] @@ withVersion ELSE withVersion
        pageSettings == IF "page_settings" \in DOMAIN withType
                        THEN withType.page_settings ELSE <<>>
        withTemplate == IF "template" \notin DOMAIN pageSettings \/ pageSettings.template = ""
                        THEN [template |-> "elementor_canvas"] @@ pageSettings
                        ELSE pageSettings
        metadata == IF "metadata" \in DOMAIN withType THEN withType.metadata ELSE <<>>
        stamped == [created_at |-> ts, elementor_version |-> "3.16.0", export_date |-> ts]
                   @@ metadata
    IN [page_settings |-> withTemplate, metadata |-> stamped] @@ withType

\* validateAndEnhanceTemplate (lines 123-132).
validateAndEnhanceTemplate(doc, ts) ==
    LET isValid == validateElementorTemplate(doc) IN
    [isValid |-> isValid,
     errors |-> ValidationErrors(doc),
     enhancedTemplate |-> IF isValid THEN enhanceTemplateStructure(doc, ts) ELSE doc]

\* getTemplateStats (lines 166-175) without fileSize, the length of the
\* text of the template.
getTemplateStats(doc) ==
    LET content == IF "content" \in DOMAIN doc THEN doc.content ELSE <<>> IN
    [sections |-> countElementsByType(content, "section"),
     columns |-> countElementsByType(content, "column"),
     widgets |-> countElementsByType(content, "widget"),
     isValid |-> validateElementorTemplate(doc)]

\* ElementorValidator.validate (lines 157-164) of the candidate, and then of
\* the enhancedTemplate of the result before.
validate ==
    /\ candidate # NoValue
    /\ Len(validation) < 2
    /\ \E ts \in Timestamps :
          LET doc == IF validation = <<>> THEN candidate
                     ELSE validation[Len(validation)].enhancedTemplate
              validationResult == validateAndEnhanceTemplate(doc, ts)
          IN validation' = Append(validation,
                                  validationResult
                                  @@ [stats |-> getTemplateStats(validationResult.enhancedTemplate)])
    /\ UNCHANGED candidate
    /\ UNCHANGED otherThanSchema

\* Any template of the model is handed to the validator.
InitSchema ==
    /\ StoreIdle
    /\ ConvIdle
    /\ AssetIdle
    /\ SchedIdle
    /\ LinkIdle
    /\ MapIdle
    /\ CssIdle
    /\ BatchIdle
    /\ IsTemplate(candidate)
    /\ validation = <<>>

NextSchema == validate

SpecSchema == InitSchema /\ [][NextSchema]_vars

\* Some section of the list holds a non-column, some column a non-widget, or
\* some widget a child element.
RECURSIVE BreaksNesting(_)
BreaksNesting(elements) ==
    \E k \in 1..Len(elements) :
       LET e == elements[k] IN
       \/ e.elType = "section" /\ \E j \in 1..Len(ElementsOf(e)) : e.elements[j].elType # "column"
       \/ e.elType = "column" /\ \E j \in 1..Len(ElementsOf(e)) : e.elements[j].elType # "widget"
       \/ e.elType = "widget" /\ ElementsOf(e) # <<>>
       \/ BreaksNesting(ElementsOf(e))

\* C22: a template in which a section holds a non-column, a column holds a
\* non-widget, or a widget holds child elements is rejected by the schema
\* validator.
C22_BrokenNestingRejected ==
    validation # <<>> /\ BreaksNesting(candidate.content) => ~validation[1].isValid

\* C24: validation is idempotent on accepted templates: when validating a
\* template reports isValid = true, validating the enhancedTemplate it
\* returned reports isValid = true as well.
C24_ValidationIdempotent ==
    Len(validation) = 2 /\ validation[1].isValid => validation[2].isValid

\* An accepted template with no page_settings and no metadata has been
\* enhanced and validated again.
C24_Witness ==
    /\ Len(validation) = 2
    /\ validation[1].isValid
    /\ validation[2].isValid
    /\ "page_settings" \notin DOMAIN candidate
    /\ "metadata" \notin DOMAIN candidate
    /\ validation[1].enhancedTemplate # candidate
    /\ validation[2].stats.widgets > 0

\* ================================================== buildWidget, a elements
\* The strings the link detectors search are sequences of characters.
UpperCase == <<"A", "B", "C", "D", "E", "F", "G", "H", "I", "J", "K", "L", "M", "N", "O", "P", "Q", "R", "S", "T", "U", "V", "W", "X", "Y", "Z">>
LowerCase == <<"a", "b", "c", "d", "e", "f", "g", "h", "i", "j", "k", "l", "m", "n", "o", "p", "q", "r", "s", "t", "u", "v", "w", "x", "y", "z">>
Digits == <<"0", "1", "2", "3", "4", "5", "6", "7", "8", "9">>

\* String.prototype.toLowerCase.
toLowerCase(str) ==
    [k \in 1..Len(str) |->
        IF \E i \in 1..26 : UpperCase[i] = str[k]
        THEN LowerCase[CHOOSE i \in 1..26 : UpperCase[i] = str[k]]
        ELSE str[k]]

\* String.prototype.trim.
RECURSIVE trim(_)
trim(str) ==
    IF str = <<>> THEN str
    ELSE IF Head(str) = " " THEN trim(Tail(str))
    ELSE IF str[Len(str)] = " " THEN trim(SubSeq(str, 1, Len(str) - 1))
    ELSE str

\* String.prototype.includes and String.prototype.startsWith.
includes(str, pattern) ==
    \E i \in 1..(Len(str) - Len(pattern) + 1) :
       SubSeq(str, i, i + Len(pattern) - 1) = pattern
startsWith(str, pattern) ==
    Len(str) >= Len(pattern) /\ SubSeq(str, 1, Len(pattern)) = pattern

\* \w of a regular expression.
IsWordChar(c) ==
    \/ \E i \in 1..26 : c \in {UpperCase[i], LowerCase[i]}
    \/ \E i \in 1..10 : c = Digits[i]
    \/ c = "_"

\* new RegExp(`\\b${word}\\b`, 'i').test(str) for a word that starts and
\* ends with a letter.
testWord(str, word) ==
    \E i \in 1..(Len(str) - Len(word) + 1) :
       /\ toLowerCase(SubSeq(str, i, i + Len(word) - 1)) = word
       /\ i = 1 \/ ~IsWordChar(str[i - 1])
       /\ i + Len(word) - 1 = Len(str) \/ ~IsWordChar(str[i + Len(word)])

\* A CSS length such as "4px", and parseInt of it.
Px(n) == [n |-> n, unit |-> "px"]
parseInt(length) == length.n

buttonClasses == {<<"b", "t", "n">>, <<"b", "u", "t", "t", "o", "n">>, <<"c", "t", "a">>,
    <<"c", "a", "l", "l", "-", "t", "o", "-", "a", "c", "t", "i", "o", "n">>,
    <<"a", "c", "t", "i", "o", "n">>, <<"s", "u", "b", "m", "i", "t">>,
                  <<"d", "o", "w", "n", "l", "o", "a", "d">>}

\* isButtonLike (lines 34-70) of an element whose layout has backgroundColor,
\* borderRadius and padding.
isButtonLike(element) ==
    LET className == element.className
        tagName == element.tagName
        layout == element.layout
        hasButtonClass == \E btnClass \in buttonClasses : testWord(className, btnClass)
        isButtonTag == \/ tagName = "button"
                       \/ tagName = "input" /\ element.attributes.type \in {"submit", "button"}
        hasStrongButtonStyling ==
            /\ layout.backgroundColor \notin {"", "rgba(0, 0, 0, 0)", "transparent"}
            /\ \/ parseInt(layout.borderRadius) >= 3
               \/ /\ parseInt(layout.padding.top) >= 8
                  /\ parseInt(layout.padding.bottom) >= 8
                  /\ parseInt(layout.padding.left) >= 12
                  /\ parseInt(layout.padding.right) >= 12
    IN hasButtonClass \/ isButtonTag \/ hasStrongButtonStyling

navClasses == {<<"n", "a", "v">>, <<"m", "e", "n", "u">>,
    <<"n", "a", "v", "i", "g", "a", "t", "i", "o", "n">>, <<"n", "a", "v", "b", "a", "r">>,
    <<"h", "e", "a", "d", "e", "r", "-", "l", "i", "n", "k">>,
    <<"f", "o", "o", "t", "e", "r", "-", "l", "i", "n", "k">>}

navTextPatterns == {<<"h", "o", "m", "e">>, <<"a", "b", "o", "u", "t">>,
    <<"c", "o", "n", "t", "a", "c", "t">>, <<"s", "e", "r", "v", "i", "c", "e", "s">>,
    <<"p", "r", "o", "d", "u", "c", "t", "s">>, <<"b", "l", "o", "g">>,
                    <<"p", "o", "r", "t", "f", "o", "l", "i", "o">>, <<"t", "e", "a", "m">>,
                        <<"c", "a", "r", "e", "e", "r", "s">>, <<"f", "a", "q">>,
                        <<"s", "u", "p", "p", "o", "r", "t">>,
                        <<"p", "r", "i", "c", "i", "n", "g">>,
                    <<"f", "e", "a", "t", "u", "r", "e", "s">>, <<"l", "o", "g", "i", "n">>,
                        <<"s", "i", "g", "n", " ", "i", "n">>,
                        <<"r", "e", "g", "i", "s", "t", "e", "r">>,
                        <<"s", "i", "g", "n", " ", "u", "p">>}

\* The alternatives of the first of navUrlPatterns (line 109).
navPaths == {<<"/", "a", "b", "o", "u", "t">>, <<"/", "c", "o", "n", "t", "a", "c", "t">>,
    <<"/", "b", "l", "o", "g">>, <<"/", "s", "e", "r", "v", "i", "c", "e", "s">>,
    <<"/", "p", "r", "o", "d", "u", "c", "t", "s">>, <<"/", "t", "e", "a", "m">>,
             <<"/", "c", "a", "r", "e", "e", "r", "s">>, <<"/", "f", "a", "q">>,
                 <<"/", "s", "u", "p", "p", "o", "r", "t">>}

\* navUrlPatterns.some(pattern => pattern.test(href)) (lines 108-117).
hasNavUrl(href) ==
    LET lower == toLowerCase(href) IN
    \/ lower \in navPaths
    \/ /\ Len(href) >= 2
       /\ href[1] = "#"
       /\ \A k \in 2..Len(href) :
             lower[k] = "-" \/ \E i \in 1..26 : LowerCase[i] = lower[k]
    \/ \E part \in {<<"/", "c", "a", "t", "e", "g", "o", "r", "y", "/">>,
        <<"/", "t", "a", "g", "/">>, <<"/", "a", "r", "c", "h", "i", "v", "e", "/">>,
        <<"/", "p", "a", "g", "e", "/">>} : includes(lower, part)

\* isNavigationLink (lines 78-127).
isNavigationLink(element) ==
    LET href == element.attributes.href
        className == element.className
        textContent == trim(toLowerCase(element.textContent))
        hasNavClass == \E navClass \in navClasses : testWord(className, navClass)
        hasNavText == \E pattern \in navTextPatterns :
                         textContent = pattern \/ includes(textContent, pattern)
    IN
    IF href \in {<<>>, <<"#">>,
        <<"j", "a", "v", "a", "s", "c", "r", "i", "p", "t", ":", "v", "o", "i", "d", "(", "0", ")">>,
        <<"j", "a", "v", "a", "s", "c", "r", "i", "p", "t", ":", ";">>} THEN TRUE
    ELSE IF hasNavClass THEN TRUE
    ELSE IF hasNavText /\ (hasNavUrl(href) \/ startsWith(href, <<"/">>)) THEN TRUE
    ELSE hasNavClass \/ hasNavUrl(href)

\* a || b on sequences of characters.
OrStr(a, b) == IF a # <<>> THEN a ELSE b

\* Variant of buildLinkWidget that drops the link of every navigation link,
\* button-like or not.
buildLinkWidgetIgnoresButton(element) ==
    LET href == element.attributes.href
        textContent == element.textContent
    IN
    IF isNavigationLink(element)
    THEN Widget("text-editor", [editor |-> OrStr(textContent, <<"T", "e", "x", "t", " ", "c", "o", "n", "t", "e", "n", "t">>),
                                align |-> "left", typography_typography |-> "custom"])
    ELSE Widget("button", [text |-> OrStr(textContent, <<"C", "l", "i", "c", "k", " ", "H", "e", "r", "e">>),
                           link |-> [url |-> OrStr(href, <<"#">>), is_external |-> "",
                                     nofollow |-> ""],
                           align |-> "left", button_type |-> "default", size |-> "sm",
                           typography_typography |-> "custom"])

\* buildWidget for an a element (lines 1108-1132, 1190-1245, 1272-1278) whose
\* layout gives no text colour, font or alignment.
buildLinkWidget(element) ==
    LET href == element.attributes.href
        textContent == element.textContent
        isNav == isNavigationLink(element)
        isButton == isButtonLike(element)
        layout == element.layout
    IN
    IF isNav /\ ~isButton
    THEN Widget("text-editor", [editor |-> OrStr(textContent, <<"T", "e", "x", "t", " ", "c", "o", "n", "t", "e", "n", "t">>),
                                align |-> "left", typography_typography |-> "custom"])
    ELSE Widget("button",
                [text |-> OrStr(textContent, <<"C", "l", "i", "c", "k", " ", "H", "e", "r", "e">>),
                 link |-> [url |-> OrStr(href, <<"#">>), is_external |-> "", nofollow |-> ""],
                 align |-> "left", button_type |-> "default", size |-> "sm",
                 typography_typography |-> "custom"]
                @@ (IF layout.backgroundColor \notin {"", "rgba(0, 0, 0, 0)"}
                    THEN [button_background_color |-> layout.backgroundColor]
                    ELSE <<>>))

\* The a elements of the model.
ClassNames == {<<>>, <<"b", "t", "n", " ", "b", "t", "n", "-", "p", "r", "i", "m", "a", "r", "y">>,
    <<"n", "a", "v", "-", "l", "i", "n", "k">>,
    <<"d", "i", "s", "t", "r", "i", "b", "u", "t", "e">>,
    <<"m", "e", "n", "u", " ", "c", "t", "a">>,
               <<"H", "e", "a", "d", "e", "r", "-", "L", "i", "n", "k">>}
Hrefs == {<<>>, <<"#">>, <<"#", "a", "b", "o", "u", "t">>, <<"/", "a", "b", "o", "u", "t">>,
    <<"/", "p", "r", "i", "c", "i", "n", "g">>,
    <<"h", "t", "t", "p", "s", ":", "/", "/", "a", ".", "c", "o", "m", "/", "b", "u", "y">>,
          <<"/", "t", "a", "g", "/", "n", "e", "w">>}
Texts == {<<>>, <<" ", "H", "o", "m", "e", " ">>, <<"B", "u", "y", " ", "n", "o", "w">>,
    <<"H", "o", "m", "e", "p", "a", "g", "e">>}
Layouts == {[backgroundColor |-> c, borderRadius |-> Px(r),
             padding |-> [top |-> Px(v), bottom |-> Px(v), left |-> Px(h), right |-> Px(h)]] :
            c \in {"", "transparent", "rgb(255, 0, 0)"}, r \in {0, 3}, v \in {0, 8},
            h \in {8, 12}}
LinkElements == {[tagName |-> "a", className |-> c, attributes |-> [href |-> h],
                  textContent |-> t, layout |-> l] :
                 c \in ClassNames, h \in Hrefs, t \in Texts, l \in Layouts}

\* buildWidget is applied to the a element.
buildLink ==
    /\ linkElement # NoValue
    /\ linkWidget = NoValue
    /\ linkWidget' = buildLinkWidget(linkElement)
    /\ UNCHANGED linkElement
    /\ UNCHANGED otherThanLink

InitLink ==
    /\ StoreIdle
    /\ ConvIdle
    /\ AssetIdle
    /\ SchedIdle
    /\ SchemaIdle
    /\ MapIdle
    /\ CssIdle
    /\ BatchIdle
    /\ linkElement \in LinkElements
    /\ linkWidget = NoValue

NextLink == buildLink

SpecLink == InitLink /\ [][NextLink]_vars

\* The a element is a navigation link and is not button-like.
PlainNavigation == isNavigationLink(linkElement) /\ ~isButtonLike(linkElement)

RECURSIVE Conversions(_, _, _, _)
RECURSIVE ChildConversions(_, _, _, _)
Conversions(t, i, parentType, cache) ==
    LET elementType == determineElementorElementType(t, i, parentType)
        result == convertElement(t, i, parentType, cache)
        below == IF elementType = "section" THEN extractAllImages(t, i, cache) ELSE cache
        kids == IF elementType = "widget" THEN <<>> ELSE children(t, i)
    IN <<[node |-> i, type |-> elementType, el |-> result.el,
          converted |-> convertChildren(t, kids, elementType, below).els]>>
       \o ChildConversions(t, kids, elementType, below)

ChildConversions(t, kids, parentType, cache) ==
    IF kids = <<>> THEN <<>>
    ELSE Conversions(t, Head(kids), parentType, cache)
         \o ChildConversions(t, Tail(kids), parentType,
                             convertElement(t, Head(kids), parentType, cache).cache)

\* The IR structure has been converted by convertStructureToElementor.
StructureConverted == Converted /\ hasValidContent(ir)

\* The sections converted on the way.
ConvertedSections ==
    LET log == Conversions(ir, 1, "none", NoCache) IN
    {log[k] : k \in {j \in 1..Len(log) : log[j].type = "section"}}

\* e is a column that holds only a fallback text widget made of text.
FallbackColumn(e, text) ==
    /\ e.elType = "column"
    /\ Len(e.elements) = 1
    /\ e.elements[1].elType = "widget"
    /\ e.elements[1].widgetType = "text-editor"
    /\ e.elements[1].settings.editor = IF text # "" THEN text ELSE "Edit this text in Elementor"

SaveAssetWrites(p) ==
    /\ pc[p] = "sm_open"
    /\ pc'[p] = "sm_write"
    /\ CurOp(p).op = "save"
    /\ metaFile[Sid(p)].kind = "doc"

\* C26: the locked flag changes only through lockSession and unlockSession:
\* the document a saveAsset call writes over the persisted one carries the
\* flag the persisted one has, so no concurrent metadata write puts back an
\* older value of the flag between lockSession and unlockSession or after
\* unlockSession.
C26_FlagChangesOnlyThroughLockUnlock ==
    [][\A p \in Procs :
          SaveAssetWrites(p) => loc[p].meta.locked = metaFile[Sid(p)].locked]_vars

\* ------------------------------------------------------------------- C27
\* The steps a caller of the session store takes when no other caller
\* writes the metadata at the same time.
populateStep(p) ==
    \/ lockSession(p)
    \/ saveAsset(p)
    \/ saveAssetWriteFile(p)
    \/ trackAsset(p)
    \/ unlockSession(p)
    \/ saveMetadataLock(p)
    \/ saveMetadataOpen(p)
    \/ saveMetadataOpenFail(p)
    \/ saveMetadataWrite(p)
    \/ saveMetadataRelease(p)

\* As Init, with one downloadAllAssets call on s1, which is unlocked and
\* expires at the next tick of the clock.
InitPopulate ==
    /\ now = sessionTTL + 1
    /\ dirExists = [s \in Sessions |-> TRUE]
    /\ \E createdAt \in 0..sessionTTL, locked \in BOOLEAN :
          metaFile = [s \in Sessions |->
                         IF s = "s1" THEN Doc(now, FALSE, <<>>)
                         ELSE Doc(createdAt + sessionTTL, locked, <<>>)]
    /\ lockHolder = [s \in Sessions |-> NoProc]
    /\ pc = [p \in Procs |-> "idle"]
    /\ prog = ScenPopulate
    /\ ret = [p \in Procs |-> <<>>]
    /\ loc = [p \in Procs |-> NoLoc]
    /\ isRunning = FALSE
    /\ stats = [totalRuns |-> 0, totalSessionsDeleted |-> 0, totalErrors |-> 0]
    /\ ConvIdle
    /\ AssetIdle
    /\ SchedIdle
    /\ SchemaIdle
    /\ LinkIdle
    /\ MapIdle
    /\ CssIdle
    /\ BatchIdle

NextPopulate ==
    \/ Tick
    \/ populateStep("lk")

SpecPopulate == InitPopulate /\ [][NextPopulate]_vars

\* downloadAllAssets has finished and the session is on disk.
PopulationEnded ==
    /\ prog["lk"] = <<>>
    /\ Len(ret["lk"]) = 4
    /\ dirExists["s1"]
    /\ metaFile["s1"].kind = "doc"

\* C27: whenever downloadAllAssets finishes on an existing session, the
\* session is left with locked = false, also when a download failed or the
\* population ended after the session's expiry time.
C27_UnlockedAfterPopulation ==
    PopulationEnded => ~metaFile["s1"].locked

\* ------------------------------------------------------------------- C28
\* A downloadAndProcessCSS call run to its end with a tracker of its own: the
\* steps of downloadCSSResponse and downloadCSSError, applied in turn with no
\* other call in between.
RECURSIVE settle(_, _)
settle(c, downloaded) ==
    IF c.status # "fetching" THEN c
    ELSE LET u == c.pending
             n == Len(c.stack)
         IN
         IF web[u].ok
         THEN LET depth == IF c.stack = <<>> THEN 0 ELSE c.stack[n].depth + 1
                  entered == [c EXCEPT !.pending = "",
                                       !.fetched = Append(@, u),
                                       !.stack = Append(@, Frame(web[u].content, u, depth))]
              IN settle(run(entered, downloaded \cup {u}), downloaded \cup {u})
         ELSE IF c.stack = <<>>
              THEN [c EXCEPT !.status = "done", !.pending = ""]
              ELSE LET f == c.stack[n]
                       failed == [f EXCEPT !.css = replace(@, ImportDecl(u),
                                                    <<Token("failed to inline", u, "")>>),
                                           !.idx = @ + 1]
                   IN settle(run([c EXCEPT !.pending = "",
                                           !.stack = SubSeq(c.stack, 1, n - 1) \o <<failed>>],
                                 downloaded), downloaded)

\* What downloadAndProcessCSS(cssUrl) saves when no other call runs.
processedAlone(cssUrl) ==
    settle([NoCssCall EXCEPT !.cssUrl = cssUrl, !.status = "fetching",
                             !.pending = cssUrl], {}).processedCSS

\* C28: the CSS a downloadAndProcessCSS call ends with is the CSS it produces
\* when it runs alone, whichever other call runs alongside it; so an import
\* that two stylesheets of a batch share is inlined in both.
C28_OutputIndependentOfOtherCalls ==
    \A k \in CssCalls:
        cssCall[k].status = "done" =>
            cssCall[k].processedCSS = processedAlone(cssCall[k].cssUrl)

\* ------------------------------------------------------------------- C29
\* Three triggers of the cleanup run, two of them one after the other (the
\* cron task, lines 61-65, and triggerManualCleanup), and a direct
\* deleteSession.
ScenTriggers == [NoCalls EXCEPT !["c1"] = <<Call("cleanup", "s1"), Call("cleanup", "s1")>>,
                                !["c2"] = <<Call("cleanup", "s1")>>,
                                !["del"] = <<Call("delete", "s2")>>]

\* Variant of runCleanupCatch without the finally block.
runCleanupCatchWithoutFinally(p) ==
    /\ prog[p] # <<>>
    /\ pc[p] \in {"rc_readdir", "rc_get", "rc_stats"}
    /\ stats' = updateStats(stats, FALSE, 0)
    /\ Return(p, "threw")
    /\ UNCHANGED <<now, dirExists, metaFile, lockHolder, isRunning>>
    /\ UNCHANGED otherThanStore

\* runCleanup, lines 198-208: an await of the try block outside the deletion
\* loop rejects (getExpiredSessions, line 139, or getStats, line 190, of the
\* storage manager handed to the constructor, line 15); the catch block
\* counts a failed run and the finally block clears the flag.
runCleanupCatch(p) ==
    /\ prog[p] # <<>>
    /\ pc[p] \in {"rc_readdir", "rc_get", "rc_stats"}
    /\ stats' = updateStats(stats, FALSE, 0)
    /\ isRunning' = FALSE
    /\ Return(p, "threw")
    /\ UNCHANGED <<now, dirExists, metaFile, lockHolder>>
    /\ UNCHANGED otherThanStore

\* runCleanup, lines 159-172: deleteSession rejects; the catch block of the
\* loop counts the session as failed and the run goes on with the next one.
runCleanupDeleteThrows(p) ==
    /\ prog[p] # <<>>
    /\ CurOp(p).op = "cleanup"
    /\ pc[p] \in {"rc_call", "del_get", "del_check", "del_rm"}
    /\ deleteSessionEnd(p, FALSE)
    /\ UNCHANGED <<now, dirExists, metaFile, lockHolder, isRunning>>
    /\ UNCHANGED otherThanStore

\* The sessions are on disk with any expiry times and lock flags; no run is
\* in progress.
InitTriggers ==
    /\ now = sessionTTL + 1
    /\ dirExists = [s \in Sessions |-> TRUE]
    /\ \E createdAt \in [Sessions -> 0..sessionTTL], locked \in [Sessions -> BOOLEAN]:
          metaFile = [s \in Sessions |-> Doc(createdAt[s] + sessionTTL, locked[s], <<>>)]
    /\ lockHolder = [s \in Sessions |-> NoProc]
    /\ pc = [p \in Procs |-> "idle"]
    /\ prog = ScenTriggers
    /\ ret = [p \in Procs |-> <<>>]
    /\ loc = [p \in Procs |-> NoLoc]
    /\ isRunning = FALSE
    /\ stats = [totalRuns |-> 0, totalSessionsDeleted |-> 0, totalErrors |-> 0]
    /\ ConvIdle
    /\ AssetIdle
    /\ SchedIdle
    /\ SchemaIdle
    /\ LinkIdle
    /\ MapIdle
    /\ CssIdle
    /\ BatchIdle

NextTriggers ==
    \/ Tick
    \/ \E p \in Procs:
        \/ cleanerStep(p)
        \/ runCleanupCatch(p)
        \/ runCleanupDeleteThrows(p)

SpecTriggers == InitTriggers /\ [][NextTriggers]_vars

\* C29: a step that ends a cleanup run, whichever way the run ends, leaves
\* isRunning false; and a trigger is skipped only while the run of another
\* trigger is in progress.
C29_FlagClearedWhenRunEnds ==
    /\ [][\A p \in Procs: (Cleaning(p) /\ ~Cleaning(p)') => ~isRunning']_vars
    /\ [][\A p \in Procs:
            (At(p, "idle", "cleanup") /\ ret'[p] = Append(ret[p], "skipped"))
               => \E q \in Procs \ {p}: Cleaning(q)]_vars

\* C29 witness: the first run of c1 ended in the catch block, the flag is
\* clear, and the next trigger of c1 was not skipped.
C29_Witness ==
    /\ ret["c1"] = <<"threw", "ran">>
    /\ ~isRunning

\* ------------------------------------------------------------------- C30
\* The widgets at or below the elements of a list, in document order.
RECURSIVE WidgetsIn(_)
WidgetsIn(elements) ==
    IF elements = <<>> THEN <<>>
    ELSE LET e == Head(elements) IN
         (IF e.elType = "widget" THEN <<e>> ELSE <<>>)
            \o WidgetsIn(ElementsOf(e)) \o WidgetsIn(Tail(elements))

\* The content-tag nodes that the conversion reaches: every ancestor of such a
\* node was classified as a section or a column, and the node as a widget.
ContentNodes ==
    LET log == Conversions(ir, 1, "none", NoCache) IN
    {log[k].node : k \in {j \in 1..Len(log) :
                            /\ log[j].type = "widget"
                            /\ ir.kind[log[j].node].tagName \in ContentTags}}

\* Those that carry a text, and those that carry a source.
TextNodes == {i \in ContentNodes : ir.kind[i].textContent # ""}
SourceNodes == {i \in ContentNodes : ir.kind[i].src # ""}

\* The text-editor widgets of the template that carry the text.
TextWidgets(text) ==
    SelectSeq(WidgetsIn(template.content),
              LAMBDA w : w.widgetType = "text-editor" /\ w.settings.editor = text)

\* The image widgets of the template that carry the source.
ImageWidgets(src) ==
    SelectSeq(WidgetsIn(template.content),
              LAMBDA w : w.widgetType = "image" /\ w.settings.url = src)

\* C30: in the template produced from an IR structure there is a text widget
\* with its text for every content-tag node lying under sections and columns
\* only that has a text (as many widgets as nodes with that text), and an
\* image widget with its source for every such node that has one, however
\* deeply the node is nested.
C30_EveryContentNodeYieldsWidget ==
    StructureConverted =>
        /\ \A i \in TextNodes :
              Len(TextWidgets(ir.kind[i].textContent))
                 >= Cardinality({j \in TextNodes : ir.kind[j].textContent = ir.kind[i].textContent})
        /\ \A i \in SourceNodes : Len(ImageWidgets(ir.kind[i].src)) >= 1

====
